---- MODULE Spec2Model ----
(***************************************************************************)
(* Model of the MUTEq noise telemetry agent (silkyclouds/mute).            *)
(*                                                                         *)
(*   main.py + backend_client.py + usb_reader.py : the HTTP client, its    *)
(*       measurement loop, the retry queue and the retry worker.           *)
(*   mute.py : the MQTT forwarder, its acquisition loop and its SQLite     *)
(*       offline queue.                                                    *)
(*                                                                         *)
(* Sound levels are kept in hundredths of a dB (80.0 dB is 8000), the      *)
(* clock in whole seconds.  The specifications share the variables:        *)
(*   SpecCandidates : BackendClient._backend_candidates on every pool and  *)
(*                    preference index;                                    *)
(*   SpecClient     : the public operations of BackendClient called with   *)
(*                    every argument;                                      *)
(*   Spec           : the two acquisition loops (program = "mute" runs     *)
(*                    mute.py, program = "main" runs main.py) with their   *)
(*                    delivery paths;                                      *)
(*   SpecWorker     : RetryWorker.run draining the retry queue while the   *)
(*                    backends change (SpecWorkerLive adds fairness);      *)
(*   SpecOutage     : main.py while every backend is unreachable;          *)
(*   SpecMqtt       : the MQTT callbacks and publishes of both scripts,    *)
(*                    starting from the rows a previous run left;          *)
(*   SpecWatchdog   : mute.py with its watchdog thread and the restart     *)
(*                    it makes;                                            *)
(*   SpecStore      : the threads of mute.py around DB_LOCK and the        *)
(*                    SQLite table;                                        *)
(*   SpecPrune      : the prune thread of mute.py over hours of clock;     *)
(*   SpecRun        : MuteqClientApp.run from the loaded configuration to  *)
(*                    the end of the process (SpecRunLive adds fairness);  *)
(*   SpecPoison     : the retry worker with one request that always fails  *)
(*                    (SpecPoisonLive adds fairness);                      *)
(*   SpecRestart    : either script over an end of its process;            *)
(*   SpecReplay     : the threads of mute.py on an empty table over two    *)
(*                    prune intervals (SpecReplayLive adds fairness);      *)
(*   SpecLoop       : the threads of mute.py with the acknowledgements     *)
(*                    handled by the network loop (SpecLoopLive adds       *)
(*                    fairness).                                           *)
(***************************************************************************)
EXTENDS Integers, Sequences, FiniteSets, TLC

VARIABLES
    program,                  \* which script runs: "mute", "main", or the bare "client"
    now,                      \* time.time(), whole seconds
    \* ---- BackendClient (backend_client.py)
    backend_pool,             \* self.backend_pool
    backend_preference_index, \* self.backend_preference_index
    device_id,                \* self.device_id
    device_token,             \* self.device_token
    retry_queue,              \* self.retry_queue._queue
    backend_status,           \* SpecClient: what each backend answers to a POST now
    \* ---- RetryWorker (backend_client.py)
    wpc,                      \* position of RetryWorker.run
    witem,                    \* the item the worker has popped
    delay,                    \* self.delay
    wake_at,                  \* end of the worker's current sleep
    \* ---- acquisition loops (mute.py noise_monitor_loop, main.py measurement_loop)
    pc,                       \* position of the acquisition thread
    ser_dev,                  \* mute.py: TRUE when a serial meter is used, FALSE for USB
    window_start,
    current_peak,
    latest_value,             \* main.py only
    dB,                       \* mute.py only: the local of the last sample
    ts,                       \* timestamp taken at the window close
    sent,                     \* result of the last send_payload of the loop
    last_heartbeat,           \* main.py
    \* ---- MQTT side (mute.py globals / MuteqMqttClient)
    MQTT_CONNECTED,           \* mute.py MQTT_CONNECTED, mqtt_client.py self.connected
    link,                     \* the connection as the MQTT library has it: "down", "up", "refused"
    mqtt_enabled,             \* main.py: cfg["mqtt_enabled"], i.e. self.mqtt_client is not None
    unsent_messages,          \* mute.py: rows of the SQLite table
    next_row_id,              \* mute.py: AUTOINCREMENT counter
    LAST_RT_TS,               \* mute.py
    FIRST_RT_SENT,            \* mute.py: a realtime message has been published
    \* ---- configuration and the extent of the clock
    time_window,              \* mute.py TIME_WINDOW as configured
    clock_end,                \* last second of clock explored
    \* ---- watchdog thread (mute.py watchdog_loop)
    wd_pc,                    \* position of watchdog_loop
    wd_wake,                  \* end of its current sleep
    h_restart,                \* steps of the restart in progress or last made
    \* ---- the threads of mute.py around the SQLite file
    db_lock,                  \* DB_LOCK: the thread that holds it, or NoOwner
    tpc,                      \* position of each thread in its store operation
    fl_rows,                  \* flush_queue: rows = cur.fetchall()
    fl_i,                     \* flush_queue: index of the row the loop is at
    sq_msg,                   \* send_or_queue: its topic and payload arguments
    prune_wake,               \* prune_loop: end of its current sleep
    \* ---- the start and the end of main.py (MuteqClientApp.run)
    run_pc,                   \* position of run()
    cfg,                      \* self.cfg: assigned_device_id and device_token
    needs_registration,       \* self.needs_registration
    cfg_file,                 \* the same two fields in the file on disk
    stop_event,               \* self.stop_event
    h_reg,                    \* the last register_device call: answers, POSTs, result
    \* ---- observation (history) variables
    h_cands,                  \* result of the last _backend_candidates evaluation
    h_call,                   \* the last BackendClient call (arguments, result), kept while
                              \* the backends and the credentials stay as they were during it
    h_posts,                  \* bases POSTed to by the last call, in order
    h_win,                    \* samples of the window being filled
    h_close,                  \* the last window close, until the next window is sampled
    emitted,                  \* measurements handed to delivery at that close
    h_mqtt                    \* the last MQTT step: its kind, the state messages
                              \* handed to the publisher, the publishes it made

storeVars == << db_lock, tpc, fl_rows, fl_i, sq_msg, prune_wake >>
runVars == << run_pc, cfg, needs_registration, cfg_file, stop_event, h_reg >>
extVars == << time_window, clock_end, wd_pc, wd_wake, h_restart, storeVars, runVars >>

vars == << program, extVars, now, backend_status, backend_pool, backend_preference_index, device_id,
           device_token, retry_queue, wpc, witem, delay, wake_at, pc, ser_dev,
           window_start, current_peak, latest_value, dB, ts, sent,
           last_heartbeat, MQTT_CONNECTED, link, mqtt_enabled, unsent_messages,
           next_row_id, LAST_RT_TS, FIRST_RT_SENT, h_cands, h_call, h_posts, h_win,
           h_close,
           emitted, h_mqtt >>

clientVars == << backend_pool, backend_preference_index, device_id,
                 device_token, retry_queue >>
workerVars == << wpc, witem, delay, wake_at >>
loopVars   == << pc, ser_dev, window_start, current_peak, latest_value, dB, ts,
                 sent, last_heartbeat >>
mqttVars   == << MQTT_CONNECTED, link, mqtt_enabled, unsent_messages, next_row_id,
                 LAST_RT_TS, FIRST_RT_SENT, h_mqtt >>
winHist    == << h_win, h_close, emitted >>
callHist   == << h_call, h_posts >>

-----------------------------------------------------------------------------
(* Bounds of the model.                                                    *)

MaxPool  == 3      \* longest backend pool drawn in SpecCandidates
MaxIndex == 4      \* preference indexes are drawn from -MaxIndex .. MaxIndex
MaxQueue == 2      \* longest retry queue explored
MaxTime  == 4      \* seconds of clock explored after StartTime
MaxBacklog == 2    \* longest retry queue explored under the measurement loop
MaxItems == 3      \* requests enqueued in SpecWorker
MaxRows  == 3      \* rows of the SQLite table at the start of SpecMqtt

-----------------------------------------------------------------------------
(* Program constants.                                                      *)

API_TIMEOUT_SECONDS == 5
HEARTBEAT_SECONDS   == 90
TIME_WINDOW_SECONDS == 2          \* main.py window
TIME_WINDOW         == 2          \* mute.py window (time_window_duration)
MINIMUM_NOISE_LEVEL == 8000       \* 80.0 dB, main.py
MIN_NOISE           == 8000       \* 80 dB, mute.py (minimum_noise_level)
StartTime           == 100        \* time.time() when the loop starts
BaseDelay           == 2          \* RetryWorker.delay
DelayCeiling        == 60

None    == "None"                 \* Python None for strings
NoFloat == -1                     \* an unbound / None float
NetErr  == 0                      \* requests.RequestException instead of a status

Backends       == {"A", "B", "C"}
DefaultBackend == "https://dash.muteq.eu"
Secret         == "secret"

-----------------------------------------------------------------------------
(* Generic helpers.                                                        *)

Max2(a, b) == IF a >= b THEN a ELSE b
Min2(a, b) == IF a <= b THEN a ELSE b

\* Python truthiness of an optional string.
Falsy(s) == s = None \/ s = ""

\* Python slice bound: a negative index counts from the end, and both ends clamp.
SliceBound(i, n) == IF i < 0 THEN Max2(n + i, 0) ELSE Min2(i, n)
\* s[i:]
SliceFrom(s, i) == SubSeq(s, SliceBound(i, Len(s)) + 1, Len(s))
\* s[:i]
SliceTo(s, i) == SubSeq(s, 1, SliceBound(i, Len(s)))

\* All sequences over S of length lo .. hi.
SeqsOf(S, lo, hi) == UNION { [1..n -> S] : n \in lo..hi }

-----------------------------------------------------------------------------
(* security.py                                                             *)

\* HMAC-SHA256 is kept symbolic: a value determined by key and message.
compute_hmac(secret, message) == << "hmac", secret, message >>

build_ingest_signature(secret, dev, timestamp_iso) ==
    compute_hmac(secret, << dev, timestamp_iso >>)

build_registration_signature(secret, device_name, nonce) ==
    compute_hmac(secret, << device_name, nonce >>)

-----------------------------------------------------------------------------
(* backend_client.py : BackendClient                                       *)

INGEST_ENDPOINTS ==
    [ realtime  |-> "/api/ingest/realtime",
      threshold |-> "/api/ingest/event",
      heartbeat |-> "/api/ingest/heartbeat" ]

\* INGEST_ENDPOINTS.get(event_type)
endpoint_get(event_type) ==
    IF event_type \in DOMAIN INGEST_ENDPOINTS
    THEN INGEST_ENDPOINTS[event_type] ELSE None

\* BackendClient.__init__: an empty pool falls back to DEFAULT_CONFIG's failover list.
init_pool(pool) == IF pool = << >> THEN << DefaultBackend >> ELSE pool

\* Variant of _backend_candidates whose head slice takes a negative index for 0.
backend_candidates_negative_as_zero(pool, index) ==
    IF pool = << >> THEN << >>
    ELSE SliceFrom(pool, index) \o SubSeq(pool, 1, Min2(Max2(index, 0), Len(pool)))

\* BackendClient._backend_candidates
backend_candidates(pool, index) ==
    IF pool = << >> THEN << >>
    ELSE SliceFrom(pool, index) \o SliceTo(pool, index)

\* BackendClient._build_headers; {} is the empty function << >>.
build_headers(dev, token, timestamp_iso) ==
    IF Falsy(dev) \/ Falsy(token) THEN << >>
    ELSE [ Authorization  |-> << "Bearer", token >>,
           XMuteTimestamp |-> timestamp_iso,
           XMuteSignature |-> build_ingest_signature(Secret, dev, timestamp_iso) ]

Is2xx(status) == 200 <= status /\ status < 300

\* Variant of post_loop that gives up at the first answer that is not 2xx.
RECURSIVE post_loop_no_failover(_, _, _, _)
post_loop_no_failover(cands, resp, i, contacted) ==
    IF i > Len(cands)
    THEN [ ok |-> FALSE, posts |-> contacted, exhausted |-> TRUE ]
    ELSE LET seen == Append(contacted, cands[i])
         IN  IF Is2xx(resp[i])
             THEN [ ok |-> TRUE, posts |-> seen, exhausted |-> FALSE ]
             ELSE [ ok |-> FALSE, posts |-> seen, exhausted |-> FALSE ]

\* Variant of post_loop that treats 401/403 like any other failure.
RECURSIVE post_loop_auth_retried(_, _, _, _)
post_loop_auth_retried(cands, resp, i, contacted) ==
    IF i > Len(cands)
    THEN [ ok |-> FALSE, posts |-> contacted, exhausted |-> TRUE ]
    ELSE LET seen == Append(contacted, cands[i])
         IN  IF Is2xx(resp[i])
             THEN [ ok |-> TRUE, posts |-> seen, exhausted |-> FALSE ]
             ELSE post_loop_auth_retried(cands, resp, i + 1, seen)

\* The loop of BackendClient._post over the candidates from position i on,
\* resp[i] being what candidate i answers (NetErr: the request raises).
\* Result: whether the POST succeeded, the candidates contacted, and whether
\* the loop ran to its end.
RECURSIVE post_loop(_, _, _, _)
post_loop(cands, resp, i, contacted) ==
    IF i > Len(cands)
    THEN [ ok |-> FALSE, posts |-> contacted, exhausted |-> TRUE ]
    ELSE LET status == resp[i]
             seen   == Append(contacted, cands[i])
         IN  IF status # NetErr /\ Is2xx(status)
             THEN [ ok |-> TRUE, posts |-> seen, exhausted |-> FALSE ]
             ELSE IF status # NetErr /\ status \in {401, 403}
             THEN [ ok |-> FALSE, posts |-> seen, exhausted |-> FALSE ]
             ELSE post_loop(cands, resp, i + 1, seen)

\* Variant of _post that queues the request whenever the pool is exhausted,
\* whatever enqueue_on_fail says.
post_enqueue_always(pool, index, queue, path, payload, headers, enqueue_on_fail, resp) ==
    LET r == post_loop(backend_candidates(pool, index), resp, 1, << >>)
    IN  [ ok    |-> r.ok,
          posts |-> r.posts,
          queue |-> IF r.exhausted
                    THEN Append(queue, [ path |-> path, payload |-> payload,
                                         headers |-> headers ])
                    ELSE queue ]

\* BackendClient._post: result, contacted candidates and the queue afterwards.
post(pool, index, queue, path, payload, headers, enqueue_on_fail, resp) ==
    LET r == post_loop(backend_candidates(pool, index), resp, 1, << >>)
    IN  [ ok    |-> r.ok,
          posts |-> r.posts,
          queue |-> IF r.exhausted /\ enqueue_on_fail
                    THEN Append(queue, [ path |-> path, payload |-> payload,
                                         headers |-> headers ])
                    ELSE queue ]

\* Variant of send_payload without the two early returns.
send_payload_unchecked(pool, index, dev, token, queue, event_type, payload, timestamp_iso, resp) ==
    post(pool, index, queue, endpoint_get(event_type), payload,
         build_headers(dev, token, timestamp_iso), TRUE, resp)

\* BackendClient.send_payload
send_payload(pool, index, dev, token, queue, event_type, payload, timestamp_iso, resp) ==
    LET headers == build_headers(dev, token, timestamp_iso)
        path    == endpoint_get(event_type)
    IN  IF headers = << >>
        THEN [ ok |-> FALSE, posts |-> << >>, queue |-> queue ]
        ELSE IF path = None
        THEN [ ok |-> FALSE, posts |-> << >>, queue |-> queue ]
        ELSE post(pool, index, queue, path, payload, headers, TRUE, resp)

\* Variant of enqueue that puts the request at the head of the queue.
enqueue_at_head(dev, token, queue, event_type, payload, timestamp_iso) ==
    LET headers == build_headers(dev, token, timestamp_iso)
        path    == endpoint_get(event_type)
    IN  IF headers = << >> \/ path = None
        THEN queue
        ELSE << [ path |-> path, payload |-> payload, headers |-> headers ] >> \o queue

\* Variant of enqueue that forgets the request.
enqueue_dropped(dev, token, queue, event_type, payload, timestamp_iso) == queue

\* BackendClient.enqueue
enqueue(dev, token, queue, event_type, payload, timestamp_iso) ==
    LET headers == build_headers(dev, token, timestamp_iso)
        path    == endpoint_get(event_type)
    IN  IF headers = << >> \/ path = None
        THEN queue
        ELSE Append(queue, [ path |-> path, payload |-> payload, headers |-> headers ])

-----------------------------------------------------------------------------
(* Values the arguments and the environment are drawn from.                *)

Statuses    == {200, 401, 403, 500, NetErr}     \* answers of a backend
EventTypes  == {"realtime", "threshold", "heartbeat", "bogus"}
DeviceIds   == {None, "", "dev1"}
Tokens      == {None, "tok1"}

\* A JSON payload: build_payload_base keeps timestamp, noise_value, peak_value;
\* the heartbeat payload has no values (NoFloat).
Payload(timestamp_iso, noise_value, peak_value) ==
    [ timestamp |-> timestamp_iso, noise_value |-> noise_value,
      peak_value |-> peak_value ]

NoCall ==
    [ op |-> "none", event_type |-> None, payload |-> Payload(0, NoFloat, NoFloat),
      ts |-> 0, ok |-> FALSE, qBefore |-> << >> ]

NotComputed == << "not computed" >>

\* The JSON payload of an MQTT state message.
StatePayload(noise_level, timestamp) ==
    [ noise_level |-> noise_level, timestamp |-> timestamp ]
\* Messages that are not state messages carry a literal text instead.
NoPayload == StatePayload(NoFloat, 0)

\* One client.publish: topic, literal text or state payload, retain flag, the
\* id of the queue row it replays (0: none), and whether it succeeded.
Pub(topic, text, payload, retain, id, ok) ==
    [ topic |-> topic, text |-> text, payload |-> payload, retain |-> retain,
      id |-> id, ok |-> ok ]

\* Observation of an MQTT step.
MqttStep(kind, handed, log) == [ step |-> kind, handed |-> handed, log |-> log ]
NoMqttStep == MqttStep("none", << >>, << >>)
\* Observation of the window being filled: whether a sample was read, the
\* largest sample read before window_start + window_duration, the largest
\* sample read at all.
NoWindow    == [ reads |-> FALSE, in_max |-> 0, all_max |-> 0 ]
\* Observation of the last window close.
NoClose     == [ closed |-> FALSE, done |-> FALSE, start |-> 0, at |-> 0,
                 peak |-> 0, reads |-> FALSE, in_max |-> 0, all_max |-> 0 ]

-----------------------------------------------------------------------------
(* Initial values of the parts a specification does not run.               *)

\* What the candidates of the pool answer, in candidate order.
Answers(pool, index, status) ==
    LET cands == backend_candidates(pool, index)
    IN  [ i \in 1..Len(cands) |-> status[cands[i]] ]

PoolSet(pool) == { pool[i] : i \in 1..Len(pool) }

ClientInit(pool, index) ==
    /\ backend_pool = init_pool(pool)
    /\ backend_status \in [PoolSet(init_pool(pool)) -> {200}]
    /\ backend_preference_index = index
    /\ device_id = None
    /\ device_token = None
    /\ retry_queue = << >>

WorkerInit ==
    /\ wpc = "not started"
    /\ witem = << >>
    /\ delay = BaseDelay
    /\ wake_at = 0

LoopIdle ==
    /\ pc = "idle"
    /\ ser_dev = FALSE
    /\ window_start = 0
    /\ current_peak = 0
    /\ latest_value = 0
    /\ dB = NoFloat
    /\ ts = 0
    /\ sent = FALSE
    /\ last_heartbeat = 0

MqttIdle ==
    /\ MQTT_CONNECTED = FALSE
    /\ link = "down"
    /\ mqtt_enabled = FALSE
    /\ unsent_messages = << >>
    /\ next_row_id = 1
    /\ LAST_RT_TS = 0
    /\ FIRST_RT_SENT = FALSE
    /\ h_mqtt = NoMqttStep

HistInit ==
    /\ h_cands = NotComputed
    /\ h_call = NoCall
    /\ h_posts = << >>
    /\ h_win = NoWindow
    /\ h_close = NoClose
    /\ emitted = << >>

\* The watchdog thread is not part of the run.
WatchdogOff ==
    /\ wd_pc = "off"
    /\ wd_wake = 0
    /\ h_restart = << >>

\* No thread holds DB_LOCK.
NoOwner == "none"

Threads == {"main", "acq", "net", "prune"}

\* The threads are not followed through their store operations.
StoreOff ==
    /\ db_lock = NoOwner
    /\ tpc = [ t \in Threads |-> "off" ]
    /\ fl_rows = << >>
    /\ fl_i = 0
    /\ sq_msg = << >>
    /\ prune_wake = 0

\* The two identity fields of a configuration, absent.
NoConfig == [ assigned_device_id |-> None, device_token |-> None ]

\* No register_device call has been made.
NoRegister == << >>

\* run() is not followed: no signal arrives, the loops start where the
\* specification puts them.
RunOff ==
    /\ run_pc = "off"
    /\ cfg = NoConfig
    /\ needs_registration = FALSE
    /\ cfg_file = NoConfig
    /\ stop_event = FALSE
    /\ h_reg = NoRegister

\* The configuration defaults and the clock of the short runs.
ExtIdle ==
    /\ time_window = TIME_WINDOW
    /\ clock_end = StartTime + MaxTime
    /\ WatchdogOff
    /\ StoreOff
    /\ RunOff

-----------------------------------------------------------------------------
(* SpecCandidates: _backend_candidates on every pool and preference index. *)

InitCandidates ==
    /\ program = "client"
    /\ ExtIdle
    /\ now = 0
    /\ \E pool \in SeqsOf(Backends, 0, MaxPool), index \in -MaxIndex..MaxIndex :
           ClientInit(pool, index)
    /\ WorkerInit /\ LoopIdle /\ MqttIdle /\ HistInit

\* One evaluation of self._backend_candidates().
Candidates ==
    /\ program = "client"
    /\ h_cands' = backend_candidates(backend_pool, backend_preference_index)
    /\ UNCHANGED << program, extVars, now, backend_status, clientVars, workerVars,
                    loopVars, mqttVars, callHist, winHist >>

NextCandidates == Candidates

SpecCandidates == InitCandidates /\ [][NextCandidates]_vars

-----------------------------------------------------------------------------
(* SpecClient: the operations of a constructed BackendClient, called with  *)
(* every argument, against backends that answer anything.                  *)

InitClient ==
    /\ program = "client"
    /\ ExtIdle
    /\ now = 0
    /\ \E index \in 0..2 : ClientInit(<< "A", "B", "C" >>, index)
    /\ WorkerInit /\ LoopIdle /\ MqttIdle /\ HistInit

Timestamps == {1}
Payloads   == { Payload(t, 7000, 8000) : t \in Timestamps }

\* Environment: one backend starts answering something else.
BackendChange(b, status) ==
    /\ b \in DOMAIN backend_status
    /\ backend_status[b] # status
    /\ backend_status' = [backend_status EXCEPT ![b] = status]
    /\ h_call' = NoCall
    /\ h_posts' = << >>
    /\ UNCHANGED << program, extVars, now, clientVars, workerVars, loopVars, mqttVars,
                    h_cands, winHist >>

\* BackendClient.set_credentials(device_id, device_token, preference_index)
SetCredentials(dev, token, index) ==
    /\ program = "client"
    /\ device_id' = dev
    /\ device_token' = token
    /\ backend_preference_index' = index
    /\ h_call' = NoCall
    /\ h_posts' = << >>
    /\ UNCHANGED << program, extVars, now, backend_status, backend_pool, retry_queue,
                    workerVars, loopVars, mqttVars, h_cands, winHist >>

CallRecord(op, event_type, payload, timestamp_iso, ok) ==
    [ op |-> op, event_type |-> event_type, payload |-> payload,
      ts |-> timestamp_iso, ok |-> ok, qBefore |-> retry_queue ]

\* BackendClient.send_payload(event_type, payload, timestamp_iso)
SendPayload(event_type, payload, timestamp_iso) ==
    /\ program = "client"
    /\ Len(retry_queue) < MaxQueue
    /\ LET r == send_payload(backend_pool, backend_preference_index, device_id,
                             device_token, retry_queue, event_type, payload,
                             timestamp_iso,
                             Answers(backend_pool, backend_preference_index,
                                     backend_status))
       IN  /\ retry_queue' = r.queue
           /\ h_posts' = r.posts
           /\ h_call' = CallRecord("send_payload", event_type, payload,
                                   timestamp_iso, r.ok)
    /\ UNCHANGED << program, extVars, now, backend_status, backend_pool,
                    backend_preference_index, device_id, device_token,
                    workerVars, loopVars, mqttVars, h_cands, winHist >>

\* BackendClient.enqueue(event_type, payload, timestamp_iso)
Enqueue(event_type, payload, timestamp_iso) ==
    /\ program = "client"
    /\ Len(retry_queue) < MaxQueue
    /\ retry_queue' = enqueue(device_id, device_token, retry_queue, event_type,
                              payload, timestamp_iso)
    /\ h_posts' = << >>
    /\ h_call' = CallRecord("enqueue", event_type, payload, timestamp_iso, FALSE)
    /\ UNCHANGED << program, extVars, now, backend_status, backend_pool,
                    backend_preference_index, device_id, device_token,
                    workerVars, loopVars, mqttVars, h_cands, winHist >>

NextClient ==
    \/ \E b \in Backends, status \in Statuses : BackendChange(b, status)
    \/ \E dev \in DeviceIds, token \in Tokens, index \in 0..2 :
          SetCredentials(dev, token, index)
    \/ \E e \in EventTypes, p \in Payloads, t \in Timestamps :
          SendPayload(e, p, t)
    \/ \E e \in EventTypes, p \in Payloads, t \in Timestamps :
          Enqueue(e, p, t)

SpecClient == InitClient /\ [][NextClient]_vars

-----------------------------------------------------------------------------
(* Sensor reads.                                                           *)

\* round(x, 1) on hundredths of a dB.
round1(h) == ((h + 5) \div 10) * 10

\* mute.py: dB = (ret[0] + ((ret[1] & 3) << 8)) * 0.1 + 30
usb_to_db(ret) == (ret[1] + ((ret[2] % 4) * 256)) * 10 + 3000

\* usb_reader.py: convert_raw_to_spl
convert_raw_to_spl(raw) ==
    IF Len(raw) < 2 THEN 0
    ELSE round1((raw[1] + ((raw[2] % 4) * 256)) * 10 + 3000)

\* What a control transfer can give: two bytes (79.9 dB, 80.0 dB with high
\* bits set in the second byte), a short answer, or a USB error.
UsbReads ==
    { [ kind |-> "data", raw |-> << 243, 1 >> ],
      [ kind |-> "data", raw |-> << 244, 5 >> ],
      [ kind |-> "data", raw |-> << 7 >> ],
      [ kind |-> "error", raw |-> << >> ] }

\* What readline() can give: a number, an empty line, garbage.
SerialReads ==
    { [ kind |-> "value", v |-> 7996 ],
      [ kind |-> "value", v |-> 8000 ],
      [ kind |-> "empty", v |-> 0 ],
      [ kind |-> "garbage", v |-> 0 ] }

\* Variant of the threshold gate with a strict comparison.
threshold_due_strict(peak, floor) == peak > floor

\* The threshold gate: current_peak >= MIN_NOISE (mute.py),
\* current_peak >= MINIMUM_NOISE_LEVEL (main.py).
threshold_due(peak, floor) == peak >= floor

\* if dB > current_peak: current_peak = dB
raise_peak(peak, value) == IF value > peak THEN value ELSE peak

\* Observation: a sample of value v was read at the current time.
Observe(v, duration) ==
    [ reads   |-> TRUE,
      in_max  |-> IF now < window_start + duration
                  THEN Max2(h_win.in_max, v) ELSE h_win.in_max,
      all_max |-> Max2(h_win.all_max, v) ]

-----------------------------------------------------------------------------
(* mute.py : SQLite queue and MQTT publishing                              *)

\* queue_message: INSERT a row stamped with the current time.
queue_message(rows, row_id, topic, payload, msg_type, t) ==
    Append(rows, [ id |-> row_id, topic |-> topic, payload |-> payload,
                   msg_type |-> msg_type, created_at |-> t ])

\* send_or_queue: msg_type from the topic.
msg_type_of(topic) ==
    IF topic = "threshold_noise_level/state" THEN "threshold" ELSE "realtime"

\* send_or_queue(topic, payload); published: the broker acknowledged the publish.
\* Gives the rows afterwards and the publish that was made, if any.
send_or_queue(connected, published, rows, row_id, topic, payload, t) ==
    [ rows |-> IF connected /\ published
               THEN rows
               ELSE queue_message(rows, row_id, topic, payload, msg_type_of(topic), t),
      log  |-> IF connected
               THEN << Pub(topic, "", payload, FALSE, 0, published) >>
               ELSE << >> ]

\* send_or_queue, lines 566-570 (without --debug): FIRST_RT_SENT is set by the
\* first realtime message that the broker acknowledged.
first_rt_sent(flag, connected, published, topic) ==
    flag \/ (connected /\ published /\ msg_type_of(topic) = "realtime")

\* Variant of the retention ceiling with one hour for every type.
retention_one_hour(msg_type) == 3600

\* The retention ceiling of flush_queue, in seconds.
retention(msg_type) == IF msg_type = "realtime" THEN 3600 ELSE 48 * 3600

\* The publish of a queued row in flush_queue.
RowPub(row, ok) == Pub(row.topic, "", row.payload, FALSE, row.id, ok)

\* Variant of flush_rows that goes on after a publish that failed.
RECURSIVE flush_rows_no_stop(_, _, _, _, _, _)
flush_rows_no_stop(rows, i, t, published, fails, log) ==
    IF i > Len(rows) THEN [ left |-> << >>, log |-> log ]
    ELSE IF t - rows[i].created_at > retention(rows[i].msg_type)
    THEN flush_rows_no_stop(rows, i + 1, t, published, fails, log)
    ELSE IF published + 1 = fails
    THEN LET r == flush_rows_no_stop(rows, i + 1, t, published + 1, fails,
                                     Append(log, RowPub(rows[i], FALSE)))
         IN  [ left |-> << rows[i] >> \o r.left, log |-> r.log ]
    ELSE flush_rows_no_stop(rows, i + 1, t, published + 1, fails,
                            Append(log, RowPub(rows[i], TRUE)))

\* flush_queue over the rows from position i on: an expired row is deleted, a
\* row within its ceiling is published and deleted, and the first publish that
\* fails (the fails-th publish of this flush; 0: none fails) stops the flush.
\* Gives the rows left in the table and the publishes made.
RECURSIVE flush_rows(_, _, _, _, _, _)
flush_rows(rows, i, t, published, fails, log) ==
    IF i > Len(rows) THEN [ left |-> << >>, log |-> log ]
    ELSE IF t - rows[i].created_at > retention(rows[i].msg_type)
    THEN flush_rows(rows, i + 1, t, published, fails, log)
    ELSE IF published + 1 = fails
    THEN [ left |-> SubSeq(rows, i, Len(rows)),
           log  |-> Append(log, RowPub(rows[i], FALSE)) ]
    ELSE flush_rows(rows, i + 1, t, published + 1, fails,
                    Append(log, RowPub(rows[i], TRUE)))

\* s in reverse order.
Reverse(s) == [ i \in 1..Len(s) |-> s[Len(s) + 1 - i] ]

\* Variant of flush_queue that replays the newest row first.
flush_queue_newest_first(rows, t, fails) ==
    LET r == flush_rows(Reverse(rows), 1, t, 0, fails, << >>)
    IN  [ left |-> Reverse(r.left), log |-> r.log ]

\* flush_queue: the rows in ascending id order.
flush_queue(rows, t, fails) == flush_rows(rows, 1, t, 0, fails, << >>)

\* Variant of the connect handler that flushes before it announces itself.
connect_publishes_flush_first(flushed) ==
    flushed \o
    << Pub("realtime_noise_level/config", "discovery", NoPayload, TRUE, 0, TRUE),
       Pub("threshold_noise_level/config", "discovery", NoPayload, TRUE, 0, TRUE),
       Pub("status/availability", "online", NoPayload, TRUE, 0, TRUE) >>

\* mqtt_on_connect with rc = 0: publish_ha_config (two retained discovery
\* configs), the retained "online", then the publishes of flush_queue.
connect_publishes(flushed) ==
    << Pub("realtime_noise_level/config", "discovery", NoPayload, TRUE, 0, TRUE),
       Pub("threshold_noise_level/config", "discovery", NoPayload, TRUE, 0, TRUE),
       Pub("status/availability", "online", NoPayload, TRUE, 0, TRUE) >>
    \o flushed

-----------------------------------------------------------------------------
(* mute.py : noise_monitor_loop, with the MQTT callbacks of the network     *)
(* thread.                                                                  *)

InitMute ==
    /\ program = "mute"
    /\ ExtIdle
    /\ now = StartTime
    /\ ClientInit(<< >>, 0)
    /\ WorkerInit
    /\ pc = "sample"
    /\ ser_dev \in BOOLEAN
    /\ window_start = StartTime - time_window
    /\ current_peak = 0
    /\ latest_value = 0
    /\ dB = NoFloat
    /\ ts = 0
    /\ sent = FALSE
    /\ last_heartbeat = 0
    /\ MQTT_CONNECTED = FALSE
    /\ link = "down"
    /\ mqtt_enabled = TRUE
    /\ unsent_messages = << >>
    /\ next_row_id = 1
    /\ LAST_RT_TS = StartTime
    /\ FIRST_RT_SENT = FALSE
    /\ h_mqtt = NoMqttStep
    /\ HistInit

muteFrame == << program, extVars, backend_status, clientVars, workerVars, latest_value,
               sent, last_heartbeat, mqtt_enabled, ser_dev, h_cands, callHist >>

\* The clock can advance by d seconds: the explored extent is not passed, and
\* a sleeping watchdog thread wakes when its sleep is over.
clock_free(d) ==
    /\ now + d <= clock_end
    /\ (wd_pc = "sleep") => (now + d <= wd_wake)

\* Step 1 of the loop with a sample read: dB is assigned and the peak raised.
MuteSampleRead(value) ==
    /\ dB' = value
    /\ current_peak' = raise_peak(current_peak, value)
    /\ h_win' = Observe(value, time_window)
    /\ now' = now

\* Step 1 of the loop when the read raises: the handler sleeps one second.
MuteSampleFailed ==
    /\ clock_free(1)
    /\ now' = now + 1
    /\ UNCHANGED << dB, current_peak, h_win >>

\* Step 1 of the loop (lines 653-671), serial meter.
MuteSampleSerial(read, d) ==
    /\ program = "mute" /\ pc = "sample" /\ ser_dev
    /\ CASE read.kind = "value" -> MuteSampleRead(read.v)
         [] read.kind = "garbage" -> MuteSampleFailed
         [] read.kind = "empty" ->
              \* dB keeps the value of the previous sample, or is unbound
              IF dB = NoFloat
              THEN MuteSampleFailed
              ELSE /\ clock_free(d)
                   /\ now' = now + d
                   /\ current_peak' = raise_peak(current_peak, dB)
                   /\ UNCHANGED << dB, h_win >>
    /\ pc' = "check"
    /\ h_close' = NoClose
    /\ emitted' = << >>
    /\ h_mqtt' = NoMqttStep
    /\ UNCHANGED << muteFrame, window_start, ts, MQTT_CONNECTED, link,
                    unsent_messages, next_row_id, LAST_RT_TS, FIRST_RT_SENT >>

\* Step 1 of the loop (lines 653-671), USB meter.
MuteSampleUsb(read) ==
    /\ program = "mute" /\ pc = "sample" /\ ~ser_dev
    /\ IF read.kind = "data" /\ Len(read.raw) >= 2
       THEN MuteSampleRead(usb_to_db(read.raw))
       ELSE MuteSampleFailed
    /\ pc' = "check"
    /\ h_close' = NoClose
    /\ emitted' = << >>
    /\ h_mqtt' = NoMqttStep
    /\ UNCHANGED << muteFrame, window_start, ts, MQTT_CONNECTED, link,
                    unsent_messages, next_row_id, LAST_RT_TS, FIRST_RT_SENT >>

\* The JSON payload of a state message: noise_level and timestamp.
MutePayload(peak, t) == StatePayload(round1(peak), t)

\* current_peak = 0.0; window_start = now
MuteReset(t) ==
    /\ current_peak' = 0
    /\ window_start' = t
    /\ h_win' = NoWindow

\* Step 3 of the loop (lines 678-695) when the window is over: the realtime
\* message is sent or queued; without a threshold event the window is reset.
MuteCloseRealtime(published) ==
    /\ program = "mute" /\ pc = "check"
    /\ now - window_start >= time_window
    /\ ts' = now
    /\ LET r == send_or_queue(MQTT_CONNECTED, published, unsent_messages,
                              next_row_id, "realtime_noise_level/state",
                              MutePayload(current_peak, now), now)
       IN  /\ unsent_messages' = r.rows
           /\ h_mqtt' = MqttStep("state",
                                 << [ topic |-> "realtime_noise_level/state",
                                      payload |-> MutePayload(current_peak, now) ] >>,
                                 r.log)
    /\ next_row_id' = next_row_id + (Len(unsent_messages') - Len(unsent_messages))
    /\ FIRST_RT_SENT' = first_rt_sent(FIRST_RT_SENT, MQTT_CONNECTED, published,
                                      "realtime_noise_level/state")
    /\ LAST_RT_TS' = now
    /\ emitted' = << [ kind |-> "realtime", peak |-> round1(current_peak) ] >>
    /\ h_close' = [ closed |-> TRUE, done |-> ~threshold_due(current_peak, MIN_NOISE),
                    start |-> window_start, at |-> now, peak |-> current_peak,
                    reads |-> h_win.reads, in_max |-> h_win.in_max,
                    all_max |-> h_win.all_max ]
    /\ IF threshold_due(current_peak, MIN_NOISE)
       THEN /\ pc' = "threshold"
            /\ UNCHANGED << current_peak, window_start, h_win >>
       ELSE /\ pc' = "sleep"
            /\ MuteReset(now)
    /\ UNCHANGED << muteFrame, now, dB, MQTT_CONNECTED, link >>

\* Lines 697-711: the threshold message is sent or queued, the window reset.
MuteCloseThreshold(published) ==
    /\ program = "mute" /\ pc = "threshold"
    /\ LET r == send_or_queue(MQTT_CONNECTED, published, unsent_messages,
                              next_row_id, "threshold_noise_level/state",
                              MutePayload(current_peak, ts), now)
       IN  /\ unsent_messages' = r.rows
           /\ h_mqtt' = MqttStep("state",
                                 << [ topic |-> "threshold_noise_level/state",
                                      payload |-> MutePayload(current_peak, ts) ] >>,
                                 r.log)
    /\ next_row_id' = next_row_id + (Len(unsent_messages') - Len(unsent_messages))
    /\ emitted' = Append(emitted, [ kind |-> "threshold", peak |-> round1(current_peak) ])
    /\ h_close' = [h_close EXCEPT !.done = TRUE]
    /\ pc' = "sleep"
    /\ MuteReset(ts)
    /\ UNCHANGED << muteFrame, now, dB, ts, MQTT_CONNECTED, link, LAST_RT_TS, FIRST_RT_SENT >>

\* Step 3 of the loop while the window is still open.
MuteNoClose ==
    /\ program = "mute" /\ pc = "check"
    /\ ~(now - window_start >= time_window)
    /\ pc' = "sleep"
    /\ UNCHANGED << muteFrame, now, window_start, current_peak, dB, ts,
                    MQTT_CONNECTED, link, unsent_messages, next_row_id, LAST_RT_TS, FIRST_RT_SENT,
                    winHist, h_mqtt >>

\* time.sleep(0.05): the clock may or may not reach the next second.
MuteSleep(d) ==
    /\ program = "mute" /\ pc = "sleep"
    /\ clock_free(d)
    /\ now' = now + d
    /\ pc' = "sample"
    /\ UNCHANGED << muteFrame, window_start, current_peak, dB, ts,
                    MQTT_CONNECTED, link, unsent_messages, next_row_id, LAST_RT_TS, FIRST_RT_SENT,
                    winHist, h_mqtt >>

\* mqtt_on_connect(rc): on rc = 0 the flag is set, discovery and "online" are
\* published and the queue is flushed; fails: which publish of the flush fails.
MqttOnConnect(rc, fails) ==
    /\ program = "mute"
    /\ ~MQTT_CONNECTED
    /\ IF rc = 0
       THEN LET r == flush_queue(unsent_messages, now, fails)
            IN  /\ MQTT_CONNECTED' = TRUE
                /\ link' = "up"
                /\ unsent_messages' = r.left
                /\ h_mqtt' = MqttStep("connect", << >>, connect_publishes(r.log))
       ELSE /\ link' = "refused"
            /\ UNCHANGED << MQTT_CONNECTED, unsent_messages, h_mqtt >>
    /\ UNCHANGED << muteFrame, now, pc, window_start, current_peak, dB, ts,
                    next_row_id, LAST_RT_TS, FIRST_RT_SENT, winHist >>

\* mqtt_on_disconnect: the flag is cleared; the "offline" publish is tried on
\* a connection that is gone.
MqttOnDisconnect ==
    /\ program = "mute"
    /\ MQTT_CONNECTED
    /\ MQTT_CONNECTED' = FALSE
    /\ link' = "down"
    /\ h_mqtt' = MqttStep("disconnect", << >>,
                          << Pub("status/availability", "offline", NoPayload,
                                 TRUE, 0, FALSE) >>)
    /\ UNCHANGED << muteFrame, now, pc, window_start, current_peak, dB, ts,
                    unsent_messages, next_row_id, LAST_RT_TS, FIRST_RT_SENT, winHist >>

NextMute ==
    \/ \E read \in SerialReads, d \in 0..1 : MuteSampleSerial(read, d)
    \/ \E read \in UsbReads : MuteSampleUsb(read)
    \/ \E published \in BOOLEAN : MuteCloseRealtime(published)
    \/ \E published \in BOOLEAN : MuteCloseThreshold(published)
    \/ MuteNoClose
    \/ \E d \in 0..1 : MuteSleep(d)
    \/ \E rc \in {0, 5}, fails \in 0..2 : MqttOnConnect(rc, fails)
    \/ MqttOnDisconnect

SpecMute == InitMute /\ [][NextMute]_vars

-----------------------------------------------------------------------------
(* backend_client.py : RetryQueue and the backoff of RetryWorker            *)

\* Variant of RetryQueue.put that puts the item at the head.
queue_put_front(queue, item) == << item >> \o queue

\* Variant of RetryQueue.put that loses the item.
queue_put_dropped(queue, item) == queue

\* RetryQueue.put: deque.append
queue_put(queue, item) == Append(queue, item)

\* RetryQueue.pop on a non-empty queue: deque.popleft, the item and the rest.
queue_pop(queue) == [ item |-> Head(queue), rest |-> Tail(queue) ]

\* Variant of the doubling without the ceiling.
next_delay_uncapped(d) == d * 2

\* self.delay = min(self.delay * 2, 60)
next_delay(d) == Min2(d * 2, DelayCeiling)

-----------------------------------------------------------------------------
(* main.py : measurement_loop, with the retry worker of the BackendClient.  *)
(* Every POST of a call can get any answer from each candidate.             *)

InitMain ==
    /\ program = "main"
    /\ ExtIdle
    /\ now = StartTime
    \* after ensure_registration: pool built, credentials set, worker started
    /\ backend_pool = << "A", "B" >>
    /\ backend_status \in [{"A", "B"} -> {200}]
    /\ backend_preference_index = 0
    \* set_credentials with the configured id: registration leaves a non-empty
    \* one; an id of blanks in the file passes load_config, is stripped to ""
    \* by validate_config, and is not None for ensure_registration
    /\ device_id \in {"dev1", ""}
    /\ device_token = "tok1"
    /\ retry_queue = << >>
    /\ wpc = "pop"
    /\ witem = << >>
    /\ delay = BaseDelay
    /\ wake_at = 0
    /\ pc = "window"
    /\ ser_dev = FALSE
    /\ window_start = 0
    /\ current_peak = 0
    /\ latest_value = 0
    /\ dB = NoFloat
    /\ ts = 0
    /\ sent = FALSE
    /\ last_heartbeat = 0
    /\ MQTT_CONNECTED = FALSE
    /\ link = "down"
    \* DEFAULT_CONFIG: mqtt_enabled is False, self.mqtt_client stays None
    /\ mqtt_enabled = FALSE
    /\ unsent_messages = << >>
    /\ next_row_id = 1
    /\ LAST_RT_TS = 0
    /\ FIRST_RT_SENT = FALSE
    /\ h_mqtt = NoMqttStep
    /\ HistInit

mainFrame == << program, extVars, ser_dev, dB, unsent_messages, next_row_id, LAST_RT_TS,
               FIRST_RT_SENT,
               mqtt_enabled, h_cands, h_call, h_mqtt >>
clientConf == << backend_pool, backend_preference_index, device_id, device_token >>

\* What the candidates can answer to one call, in candidate order.
Responses == [1..Len(backend_pool) -> Statuses]

\* The send_payload of the loop; resp is what the candidates answer to it.
LoopSend(event_type, payload, timestamp_iso, resp) ==
    send_payload(backend_pool, backend_preference_index, device_id, device_token,
                 retry_queue, event_type, payload, timestamp_iso, resp)

LoopEnqueue(event_type, payload, timestamp_iso) ==
    enqueue(device_id, device_token, retry_queue, event_type, payload, timestamp_iso)

\* build_payload_base(ts, current_peak, current_peak)
RealtimePayload == Payload(ts, current_peak, current_peak)
\* build_payload_base(ts, latest_value, current_peak)
ThresholdPayload == Payload(ts, latest_value, current_peak)
\* the heartbeat payload carries no values
HeartbeatPayload(t) == Payload(t, NoFloat, NoFloat)

\* Lines 180-183: the flag is not set at the loop head, a new window starts.
MainWindowStart ==
    /\ program = "main" /\ pc = "window"
    /\ ~stop_event
    /\ window_start' = now
    /\ current_peak' = 0
    /\ latest_value' = 0
    /\ h_win' = NoWindow
    /\ h_close' = NoClose
    /\ emitted' = << >>
    /\ h_posts' = << >>
    /\ pc' = "inner"
    /\ UNCHANGED << mainFrame, now, backend_status, clientVars, workerVars,
                    ts, sent, last_heartbeat, MQTT_CONNECTED, link >>

\* Lines 184-191: one pass of the inner loop; read_spl_value gives None when the
\* transfer raises; both branches end in a 0.1 s sleep.
MainSample(read, d) ==
    /\ program = "main" /\ pc = "inner"
    /\ now - window_start < TIME_WINDOW_SECONDS /\ ~stop_event
    /\ now + d <= clock_end
    /\ now' = now + d
    /\ IF read.kind = "error"
       THEN UNCHANGED << latest_value, current_peak, h_win >>
       ELSE LET value == convert_raw_to_spl(read.raw)
            IN  /\ latest_value' = value
                /\ current_peak' = raise_peak(current_peak, value)
                /\ h_win' = Observe(value, TIME_WINDOW_SECONDS)
    /\ UNCHANGED << mainFrame, h_posts, pc, backend_status, clientVars, workerVars,
                    window_start, ts, sent, last_heartbeat, MQTT_CONNECTED, link,
                    h_close, emitted >>

\* Lines 197-199 after the realtime delivery: no MQTT client (mqtt_enabled is
\* False), then the threshold gate.
AfterRealtime ==
    IF threshold_due(current_peak, MINIMUM_NOISE_LEVEL) THEN "send_thr" ELSE "heartbeat"

\* Lines 184, 192-194: the window is over, or the flag is set; the realtime
\* payload is sent.
MainSendRealtime(resp) ==
    /\ program = "main" /\ pc = "inner"
    /\ ~(now - window_start < TIME_WINDOW_SECONDS /\ ~stop_event)
    /\ Len(retry_queue) < MaxBacklog
    /\ ts' = now
    /\ LET r == LoopSend("realtime", Payload(now, current_peak, current_peak), now, resp)
       IN  /\ sent' = r.ok
           /\ retry_queue' = r.queue
           /\ h_posts' = r.posts
           /\ pc' = IF r.ok THEN AfterRealtime ELSE "enq_rt"
           /\ h_close' = [ closed |-> TRUE,
                           done |-> r.ok /\ AfterRealtime = "heartbeat",
                           start |-> window_start, at |-> now,
                           peak |-> current_peak, reads |-> h_win.reads,
                           in_max |-> h_win.in_max, all_max |-> h_win.all_max ]
    /\ emitted' = << [ kind |-> "realtime", peak |-> current_peak ] >>
    /\ UNCHANGED << mainFrame, now, backend_status, clientConf, workerVars,
                    window_start, current_peak, latest_value, last_heartbeat,
                    MQTT_CONNECTED, link, h_win >>

\* Lines 195-196: the realtime payload is enqueued after a failed send.
MainEnqueueRealtime ==
    /\ program = "main" /\ pc = "enq_rt"
    /\ retry_queue' = LoopEnqueue("realtime", RealtimePayload, ts)
    /\ pc' = AfterRealtime
    /\ h_close' = [h_close EXCEPT !.done = (AfterRealtime = "heartbeat")]
    /\ UNCHANGED << mainFrame, h_posts, now, backend_status, clientConf, workerVars,
                    window_start, current_peak, latest_value, ts, sent,
                    last_heartbeat, MQTT_CONNECTED, link, h_win, emitted >>

\* Lines 199-201: the threshold payload is sent.
MainSendThreshold(resp) ==
    /\ program = "main" /\ pc = "send_thr"
    /\ Len(retry_queue) < MaxBacklog
    /\ LET r == LoopSend("threshold", ThresholdPayload, ts, resp)
       IN  /\ sent' = r.ok
           /\ retry_queue' = r.queue
           /\ h_posts' = r.posts
           /\ pc' = IF r.ok THEN "heartbeat" ELSE "enq_thr"
           /\ h_close' = [h_close EXCEPT !.done = r.ok]
    /\ emitted' = Append(emitted, [ kind |-> "threshold", peak |-> current_peak ])
    /\ UNCHANGED << mainFrame, now, backend_status, clientConf, workerVars,
                    window_start, current_peak, latest_value, ts,
                    last_heartbeat, MQTT_CONNECTED, link, h_win >>

\* Lines 202-205: the threshold payload is enqueued after a failed send.
MainEnqueueThreshold ==
    /\ program = "main" /\ pc = "enq_thr"
    /\ retry_queue' = LoopEnqueue("threshold", ThresholdPayload, ts)
    /\ pc' = "heartbeat"
    /\ h_close' = [h_close EXCEPT !.done = TRUE]
    /\ UNCHANGED << mainFrame, h_posts, now, backend_status, clientConf, workerVars,
                    window_start, current_peak, latest_value, ts, sent,
                    last_heartbeat, MQTT_CONNECTED, link, h_win, emitted >>

\* send_heartbeat_if_needed, lines 152-154: not due yet.
MainHeartbeatSkip ==
    /\ program = "main" /\ pc = "heartbeat"
    /\ now - last_heartbeat < HEARTBEAT_SECONDS
    /\ pc' = "window"
    /\ UNCHANGED << mainFrame, h_posts, now, backend_status, clientVars, workerVars,
                    window_start, current_peak, latest_value, ts, sent,
                    last_heartbeat, MQTT_CONNECTED, link, winHist >>

\* send_heartbeat_if_needed, lines 155-172: the heartbeat is sent.
MainHeartbeatSend(resp) ==
    /\ program = "main" /\ pc = "heartbeat"
    /\ ~(now - last_heartbeat < HEARTBEAT_SECONDS)
    /\ Len(retry_queue) < MaxBacklog
    /\ ts' = now
    /\ LET r == LoopSend("heartbeat", HeartbeatPayload(now), now, resp)
       IN  /\ sent' = r.ok
           /\ retry_queue' = r.queue
           /\ h_posts' = r.posts
           /\ pc' = IF r.ok THEN "window" ELSE "enq_hb"
           /\ last_heartbeat' = IF r.ok THEN now ELSE last_heartbeat
    /\ UNCHANGED << mainFrame, now, backend_status, clientConf, workerVars,
                    window_start, current_peak, latest_value, MQTT_CONNECTED, link,
                    winHist >>

\* send_heartbeat_if_needed, lines 173-175: the heartbeat is enqueued.
MainHeartbeatEnqueue ==
    /\ program = "main" /\ pc = "enq_hb"
    /\ retry_queue' = LoopEnqueue("heartbeat", HeartbeatPayload(ts), ts)
    /\ last_heartbeat' = ts
    /\ pc' = "window"
    /\ UNCHANGED << mainFrame, h_posts, now, backend_status, clientConf, workerVars,
                    window_start, current_peak, latest_value, ts, sent,
                    MQTT_CONNECTED, link, winHist >>

\* RetryWorker.run, lines 58-63: pop the oldest item, or sleep a second.
WorkerPop ==
    /\ program = "main" /\ wpc = "pop"
    /\ IF retry_queue = << >>
       THEN /\ wpc' = "idle"
            /\ wake_at' = now + 1
            /\ UNCHANGED << retry_queue, witem >>
       ELSE /\ witem' = queue_pop(retry_queue).item
            /\ retry_queue' = queue_pop(retry_queue).rest
            /\ wpc' = "post"
            /\ UNCHANGED wake_at
    /\ UNCHANGED << mainFrame, h_posts, now, backend_status, clientConf, delay, pc,
                    window_start, current_peak, latest_value, ts, sent,
                    last_heartbeat, MQTT_CONNECTED, link, winHist >>

\* RetryWorker.run, lines 64-67: the item is posted with enqueue_on_fail=False.
WorkerPost(resp) ==
    /\ program = "main" /\ wpc = "post"
    /\ LET r == post(backend_pool, backend_preference_index, retry_queue,
                     witem.path, witem.payload, witem.headers, FALSE, resp)
       IN  /\ retry_queue' = r.queue
           /\ IF r.ok
              THEN /\ delay' = BaseDelay
                   /\ witem' = << >>
                   /\ wpc' = "pop"
              ELSE /\ wpc' = "put"
                   /\ UNCHANGED << delay, witem >>
    /\ UNCHANGED << mainFrame, h_posts, now, backend_status, clientConf, wake_at, pc,
                    window_start, current_peak, latest_value, ts, sent,
                    last_heartbeat, MQTT_CONNECTED, link, winHist >>

\* RetryWorker.run, lines 68-69: the failed item goes back, the worker sleeps.
WorkerPutBack ==
    /\ program = "main" /\ wpc = "put"
    /\ retry_queue' = queue_put(retry_queue, witem)
    /\ witem' = << >>
    /\ wake_at' = now + delay
    /\ wpc' = "backoff"
    /\ UNCHANGED << mainFrame, h_posts, now, backend_status, clientConf, delay, pc,
                    window_start, current_peak, latest_value, ts, sent,
                    last_heartbeat, MQTT_CONNECTED, link, winHist >>

\* RetryWorker.run: a sleep ends; after a backoff sleep the delay doubles (line 70).
WorkerWake ==
    /\ program = "main" /\ wpc \in {"idle", "backoff"}
    /\ now >= wake_at
    /\ delay' = IF wpc = "backoff" THEN next_delay(delay) ELSE delay
    /\ wpc' = "pop"
    /\ UNCHANGED << mainFrame, h_posts, now, backend_status, clientVars, witem, wake_at,
                    pc, window_start, current_peak, latest_value, ts, sent,
                    last_heartbeat, MQTT_CONNECTED, link, winHist >>

NextMain ==
    \/ MainWindowStart
    \/ \E read \in UsbReads, d \in 0..1 : MainSample(read, d)
    \/ \E resp \in Responses : MainSendRealtime(resp)
    \/ MainEnqueueRealtime
    \/ \E resp \in Responses : MainSendThreshold(resp)
    \/ MainEnqueueThreshold
    \/ MainHeartbeatSkip
    \/ \E resp \in Responses : MainHeartbeatSend(resp)
    \/ MainHeartbeatEnqueue
    \/ WorkerPop
    \/ \E resp \in Responses : WorkerPost(resp)
    \/ WorkerPutBack
    \/ WorkerWake

SpecMain == InitMain /\ [][NextMain]_vars

-----------------------------------------------------------------------------
(* Spec: either script.                                                    *)

Init == InitMute \/ InitMain

Next == NextMute \/ NextMain

Spec == Init /\ [][Next]_vars

-----------------------------------------------------------------------------
(* SpecWorker: the retry worker of a started BackendClient over a long run. *)
(* The measurement loop is reduced to the requests it enqueues, the         *)
(* backends answer anything and change at any time, and the clock is kept   *)
(* relative to the sleeping worker.                                         *)

\* What a backend answers in SpecWorker.
WorkerStatuses == {200, 401, NetErr}

InitWorker ==
    /\ program = "main"
    /\ ExtIdle
    /\ now = StartTime
    \* after ensure_registration: pool built, credentials set, worker started
    /\ backend_pool = << "A", "B" >>
    /\ backend_status \in [{"A", "B"} -> WorkerStatuses]
    /\ backend_preference_index = 0
    /\ device_id = "dev1"
    /\ device_token = "tok1"
    /\ retry_queue = << >>
    /\ wpc = "pop"
    /\ witem = << >>
    /\ delay = BaseDelay
    /\ wake_at = 0
    /\ LoopIdle /\ MqttIdle /\ HistInit

\* main.py lines 192-196 reduced to their effect on the queue: a window
\* closes with the next timestamp and its realtime payload is enqueued.
LoopEnqueues ==
    /\ program = "main" /\ pc = "idle"
    /\ ts < MaxItems
    /\ ts' = ts + 1
    /\ retry_queue' = enqueue(device_id, device_token, retry_queue, "realtime",
                              Payload(ts', 0, 0), ts')
    /\ UNCHANGED << mainFrame, h_posts, now, backend_status, clientConf,
                    workerVars, pc, window_start, current_peak, latest_value,
                    sent, last_heartbeat, MQTT_CONNECTED, link, winHist >>

\* A backend starts answering something else.
WorkerBackendChange(b, status) ==
    /\ program = "main" /\ pc = "idle"
    /\ BackendChange(b, status)

\* The attempt of the worker against the backends as they answer now.
WorkerAttempt ==
    /\ pc = "idle"
    /\ WorkerPost(Answers(backend_pool, backend_preference_index, backend_status))

\* time.sleep of the worker: the rest of the sleep elapses.
WorkerSleeps ==
    /\ program = "main" /\ pc = "idle"
    /\ wpc \in {"idle", "backoff"}
    /\ now < wake_at
    /\ wake_at' = now
    /\ UNCHANGED << mainFrame, h_posts, now, backend_status, clientVars, wpc,
                    witem, delay, loopVars, MQTT_CONNECTED, link, winHist >>

NextWorker ==
    \/ LoopEnqueues
    \/ \E b \in Backends, status \in WorkerStatuses : WorkerBackendChange(b, status)
    \/ WorkerPop
    \/ WorkerAttempt
    \/ WorkerPutBack
    \/ WorkerWake
    \/ WorkerSleeps

SpecWorker == InitWorker /\ [][NextWorker]_vars

\* The scheduling of the worker thread: it is never starved, and its sleeps end.
WorkerFairness ==
    /\ WF_vars(WorkerPop)
    /\ WF_vars(WorkerAttempt)
    /\ WF_vars(WorkerPutBack)
    /\ WF_vars(WorkerWake)
    /\ WF_vars(WorkerSleeps)

SpecWorkerLive == SpecWorker /\ WorkerFairness

-----------------------------------------------------------------------------
(* SpecOutage: measurement_loop and the retry worker while no backend can  *)
(* be reached: every POST raises a RequestException.                       *)

AllDown == [ i \in 1..Len(backend_pool) |-> NetErr ]

NextOutage ==
    \/ MainWindowStart
    \/ \E read \in UsbReads, d \in 0..1 : MainSample(read, d)
    \/ MainSendRealtime(AllDown)
    \/ MainEnqueueRealtime
    \/ MainSendThreshold(AllDown)
    \/ MainEnqueueThreshold
    \/ MainHeartbeatSkip
    \/ MainHeartbeatSend(AllDown)
    \/ MainHeartbeatEnqueue
    \/ WorkerPop
    \/ WorkerPost(AllDown)
    \/ WorkerPutBack
    \/ WorkerWake

SpecOutage == InitMain /\ [][NextOutage]_vars

-----------------------------------------------------------------------------
(* SpecMqtt: the two MQTT publishers on their own.  mute.py starts with the *)
(* rows a previous run left in the SQLite table, of every age; the loops    *)
(* are reduced to the state messages they hand to the publisher.            *)

FlushTime == 200000                 \* the time of the run, in seconds
Ages      == {10, 3600, 3660, 176400}   \* 10 s, 1 h, 61 min, 49 h
MsgTypes  == {"realtime", "threshold"}

\* mute.py: the state topic of a message type.
state_topic(msg_type) ==
    IF msg_type = "threshold" THEN "threshold_noise_level/state"
    ELSE "realtime_noise_level/state"

\* The rows a previous run can have left: ids ascending from 1, created_at
\* not decreasing with the id.
StoredQueues ==
    LET kinds  == MsgTypes \X Ages
        shapes == UNION { [1..n -> kinds] : n \in 0..MaxRows }
        sorted == { f \in shapes :
                      \A i \in 1..(Len(f) - 1) : f[i][2] >= f[i + 1][2] }
    IN  { [ i \in 1..Len(f) |->
              [ id |-> i, topic |-> state_topic(f[i][1]),
                payload |-> StatePayload(8000, FlushTime - f[i][2]),
                msg_type |-> f[i][1], created_at |-> FlushTime - f[i][2] ] ]
          : f \in sorted }

InitMqtt ==
    /\ program \in {"mute", "main"}
    /\ ExtIdle
    /\ now = FlushTime
    /\ ClientInit(<< >>, 0)
    /\ WorkerInit /\ LoopIdle /\ HistInit
    /\ MQTT_CONNECTED = FALSE
    /\ link = "down"
    /\ mqtt_enabled = TRUE
    /\ unsent_messages \in (IF program = "mute" THEN StoredQueues ELSE { << >> })
    /\ next_row_id = Len(unsent_messages) + 1
    /\ LAST_RT_TS = 0
    /\ FIRST_RT_SENT = FALSE
    /\ h_mqtt = NoMqttStep

mqttFrame == << program, extVars, now, backend_status, clientVars, workerVars, loopVars,
               mqtt_enabled, LAST_RT_TS, h_cands, callHist, winHist >>

\* mute.py lines 693 and 706 reduced to the call: a state message of the
\* given type is handed to send_or_queue.
MutePublishes(msg_type, published) ==
    /\ program = "mute" /\ pc = "idle"
    /\ next_row_id <= MaxRows + 1
    /\ LET payload == MutePayload(8000, now)
           r == send_or_queue(MQTT_CONNECTED, published, unsent_messages,
                              next_row_id, state_topic(msg_type), payload, now)
       IN  /\ unsent_messages' = r.rows
           /\ next_row_id' = next_row_id + (Len(r.rows) - Len(unsent_messages))
           /\ h_mqtt' = MqttStep("state",
                                 << [ topic |-> state_topic(msg_type),
                                      payload |-> payload ] >>,
                                 r.log)
    /\ FIRST_RT_SENT' = first_rt_sent(FIRST_RT_SENT, MQTT_CONNECTED, published,
                                      state_topic(msg_type))
    /\ UNCHANGED << mqttFrame, MQTT_CONNECTED, link >>

\* mqtt_client.py: the topic of a state message.
client_topic(msg_type) ==
    IF msg_type = "threshold" THEN "noise/threshold" ELSE "noise/realtime"

\* mqtt_client.py: the JSON of a state message, one value and no timestamp
\* ({"value": v}; the threshold message has {"peak": v, "latest": v}).
ClientPayload(value) == StatePayload(value, 0)

\* MuteqMqttClient.publish_realtime / publish_threshold: nothing when the
\* client is not connected, else one publish with qos 0; the publishes made.
publish_state(connected, ok, msg_type, value) ==
    IF ~connected THEN << >>
    ELSE << Pub(client_topic(msg_type), "", ClientPayload(value), FALSE, 0, ok) >>

\* MuteqMqttClient._on_connect: connected is set whatever rc is, then
\* publish_discovery and publish_availability("online").
MainMqttOnConnect(rc) ==
    /\ program = "main" /\ pc = "idle"
    /\ mqtt_enabled
    /\ MQTT_CONNECTED' = TRUE
    /\ link' = IF rc = 0 THEN "up" ELSE "refused"
    /\ h_mqtt' = MqttStep("connect", << >>,
          << Pub("realtime/config", "discovery", NoPayload, TRUE, 0, TRUE),
             Pub("threshold/config", "discovery", NoPayload, TRUE, 0, TRUE),
             Pub("availability", "online", NoPayload, TRUE, 0, TRUE) >>)
    /\ UNCHANGED << mqttFrame, unsent_messages, next_row_id, FIRST_RT_SENT >>

\* main.py lines 197-198 and 204-205 reduced to the call: a state message is
\* handed to the MQTT client.
MainPublishes(msg_type, ok) ==
    /\ program = "main" /\ pc = "idle"
    /\ mqtt_enabled
    /\ h_mqtt' = MqttStep("state",
                          << [ topic |-> client_topic(msg_type),
                               payload |-> ClientPayload(8000) ] >>,
                          publish_state(MQTT_CONNECTED, ok, msg_type, 8000))
    /\ UNCHANGED << mqttFrame, MQTT_CONNECTED, link, unsent_messages, next_row_id,
                    FIRST_RT_SENT >>

\* The connection of main.py to the broker is lost: connect() registers no
\* on_disconnect callback (mqtt_client.py 57), so nothing of the client runs.
MainLinkLost ==
    /\ program = "main" /\ pc = "idle"
    /\ mqtt_enabled
    /\ link = "up"
    /\ link' = "down"
    /\ UNCHANGED << mqttFrame, MQTT_CONNECTED, unsent_messages, next_row_id,
                    FIRST_RT_SENT, h_mqtt >>

\* MuteqMqttClient.disconnect, called by shutdown: "offline" is published when
\* the flag is set, the network loop is stopped, the flag is cleared.
MainMqttDisconnect(ok) ==
    /\ program = "main" /\ pc = "idle"
    /\ mqtt_enabled
    /\ MQTT_CONNECTED' = FALSE
    /\ link' = "down"
    /\ pc' = "stopped"
    /\ h_mqtt' = MqttStep("disconnect", << >>,
                          IF MQTT_CONNECTED
                          THEN << Pub("availability", "offline", NoPayload, TRUE, 0, ok) >>
                          ELSE << >>)
    /\ UNCHANGED << program, extVars, now, backend_status, clientVars, workerVars,
                    ser_dev, window_start, current_peak, latest_value, dB, ts, sent,
                    last_heartbeat, mqtt_enabled, LAST_RT_TS, h_cands, callHist,
                    winHist, unsent_messages, next_row_id, FIRST_RT_SENT >>

NextMqtt ==
    \/ \E rc \in {0, 5}, fails \in 0..MaxRows : MqttOnConnect(rc, fails)
    \/ MqttOnDisconnect
    \/ \E m \in MsgTypes, published \in BOOLEAN : MutePublishes(m, published)
    \/ \E rc \in {0, 5} : MainMqttOnConnect(rc)
    \/ \E m \in MsgTypes, ok \in BOOLEAN : MainPublishes(m, ok)
    \/ MainLinkLost
    \/ \E ok \in BOOLEAN : MainMqttDisconnect(ok)

SpecMqtt == InitMqtt /\ [][NextMqtt]_vars

-----------------------------------------------------------------------------
(* Vocabulary of the properties.                                           *)

\* The pool rotated left by k places.
RotateLeft(pool, k) ==
    [ j \in 1..Len(pool) |-> pool[((j - 1 + k) % Len(pool)) + 1] ]

CredentialsSet == device_id \notin {None, ""} /\ device_token \notin {None, ""}
KnownEvent(e)  == e \in {"realtime", "threshold", "heartbeat"}

\* The candidates of the current rotation and what each answers now.
Cands     == backend_candidates(backend_pool, backend_preference_index)
Answer(i) == backend_status[Cands[i]]
Retryable(status) == ~(status >= 200 /\ status <= 299) /\ status \notin {401, 403}

\* The last client call was a send_payload that reached the network loop.
SendMade ==
    /\ program = "client"
    /\ h_call.op = "send_payload"
    /\ CredentialsSet
    /\ KnownEvent(h_call.event_type)

\* The request send_payload / enqueue build for the last call.
ExpectedRequest ==
    [ path    |-> INGEST_ENDPOINTS[h_call.event_type],
      payload |-> h_call.payload,
      headers |-> [ Authorization  |-> << "Bearer", device_token >>,
                    XMuteTimestamp |-> h_call.ts,
                    XMuteSignature |-> << "hmac", Secret, << device_id, h_call.ts >> >> ] ]

-----------------------------------------------------------------------------
(* Properties.                                                             *)

\* C5 (as stated): for every pool and every preference index, an evaluation of
\* _backend_candidates yields the pool rotated left by the index and leaves the
\* pool as it was.  Fails for an index beyond the pool length (SpecCandidates).
C5_RotatedLeftByIndex ==
    [][ h_cands' # h_cands =>
          /\ h_cands' = RotateLeft(backend_pool, backend_preference_index)
          /\ backend_pool' = backend_pool ]_vars

\* C6: a send contacts the candidates one at a time in rotation order, advances
\* past a candidate exactly when it answers a retryable failure (non-2xx other
\* than 401/403, or a network error), succeeds exactly when the last candidate
\* contacted answered 2xx, and a successful send made as many POSTs as the
\* position of the first 2xx candidate in the rotation (SpecClient).
C6_SendStopsAtFirst2xx ==
    SendMade =>
      /\ Len(h_posts) <= Len(Cands)
      /\ \A i \in 1..Len(h_posts) : h_posts[i] = Cands[i]
      /\ \A i \in 1..Len(h_posts) : i < Len(h_posts) => Retryable(Answer(i))
      /\ \A i \in 1..Len(h_posts) :
            Retryable(Answer(i)) /\ i < Len(Cands) => Len(h_posts) > i
      /\ h_call.ok <=> (Len(h_posts) >= 1 /\ Is2xx(Answer(Len(h_posts))))
      /\ h_call.ok =>
            /\ Is2xx(Answer(Len(h_posts)))
            /\ \A j \in 1..(Len(h_posts) - 1) : ~Is2xx(Answer(j))

\* C6 witness: order [B, C, A], B answers 500, C answers 200: success after two POSTs.
C6_Witness ==
    /\ SendMade
    /\ Cands = << "B", "C", "A" >>
    /\ backend_status["B"] = 500 /\ backend_status["C"] = 200
    /\ h_call.ok
    /\ h_posts = << "B", "C" >>

\* C7: when a contacted candidate answers 401 or 403, the send fails and that
\* candidate is the last one contacted in the call (SpecClient).
C7_AuthFailureStopsSend ==
    SendMade =>
      \A i \in 1..Len(h_posts) :
        Answer(i) \in {401, 403} => i = Len(h_posts) /\ ~h_call.ok

\* C7 witness: the first candidate answers 401 while the next would answer 200.
C7_Witness ==
    /\ SendMade
    /\ Len(Cands) = 3
    /\ Answer(1) = 401 /\ Answer(2) = 200
    /\ h_posts = << Cands[1] >>
    /\ ~h_call.ok

\* C8: send_payload with device_id or device_token unset, or with an unknown
\* event type, returns failure, makes no network call and leaves the retry
\* queue unchanged (SpecClient).
C8_SendRejectedLocally ==
    ( /\ program = "client"
      /\ h_call.op = "send_payload"
      /\ (~CredentialsSet \/ ~KnownEvent(h_call.event_type)) )
    => /\ ~h_call.ok
       /\ h_posts = << >>
       /\ retry_queue = h_call.qBefore

\* C8 witness: an unknown event type sent with credentials set while every
\* backend would answer 200.
C8_Witness ==
    /\ program = "client"
    /\ h_call.op = "send_payload"
    /\ CredentialsSet
    /\ h_call.event_type = "bogus"
    /\ \A b \in DOMAIN backend_status : backend_status[b] = 200
    /\ ~h_call.ok

\* C10 (as stated): every enqueue call adds one fully-formed request to the
\* tail of the queue and makes no network call.  Fails when the credentials
\* are unset or the event type is unknown (SpecClient).
C10_EnqueueUnconditional ==
    (program = "client" /\ h_call.op = "enqueue") =>
      /\ h_posts = << >>
      /\ Len(retry_queue) = Len(h_call.qBefore) + 1
      /\ SubSeq(retry_queue, 1, Len(h_call.qBefore)) = h_call.qBefore

\* C10 (amended): enqueue makes no network call; with credentials set and a
\* known event type it adds exactly the request (path, payload, headers) to
\* the tail of the queue, otherwise it leaves the queue unchanged (SpecClient).
C10_EnqueueWhenFormed ==
    (program = "client" /\ h_call.op = "enqueue") =>
      /\ h_posts = << >>
      /\ IF CredentialsSet /\ KnownEvent(h_call.event_type)
         THEN retry_queue = Append(h_call.qBefore, ExpectedRequest)
         ELSE retry_queue = h_call.qBefore

\* C10 witness: a request enqueued behind another one.
C10_Witness ==
    /\ program = "client"
    /\ h_call.op = "enqueue"
    /\ CredentialsSet /\ KnownEvent(h_call.event_type)
    /\ Len(h_call.qBefore) = 1
    /\ h_call.qBefore[1].path # INGEST_ENDPOINTS[h_call.event_type]
    /\ Len(retry_queue) = 2

-----------------------------------------------------------------------------
(* Properties of the window aggregator and of the delivery router (Spec).  *)

MinLevel == IF program = "mute" THEN MIN_NOISE ELSE MINIMUM_NOISE_LEVEL

\* Number of measurements of a kind emitted at the last window close.
CountKind(k) == Cardinality({ i \in 1..Len(emitted) : emitted[i].kind = k })

\* C1: when a window close is complete, a threshold measurement was emitted
\* exactly if the peak of the window is at least the minimum noise level, and
\* it carries the peak value of the realtime measurement of that window; for
\* noise_monitor_loop (mute.py) and measurement_loop (main.py).
C1_ThresholdIffPeakReachesFloor ==
    h_close.done =>
      /\ (CountKind("threshold") >= 1) <=> (h_close.peak >= MinLevel)
      /\ \A i, j \in 1..Len(emitted) :
            emitted[i].kind = "threshold" /\ emitted[j].kind = "realtime"
              => emitted[i].peak = emitted[j].peak

\* C1 witness: a window whose peak is exactly the floor closed with a threshold
\* measurement.
C1_Witness ==
    /\ h_close.done
    /\ h_close.peak = MinLevel
    /\ emitted = << [ kind |-> "realtime", peak |-> MinLevel ],
                    [ kind |-> "threshold", peak |-> MinLevel ] >>

\* C2 (as stated): the peak emitted at a window close is the largest sample
\* read inside [window_start, window_start + window_duration), 0 without such
\* a sample; a sample read at or after the end of the interval is not counted.
\* Fails in mute.py, which samples before it checks the time.
C2_PeakIsMaxInsideWindow ==
    h_close.closed => h_close.peak = h_close.in_max

\* C3 (as stated): a window close of noise_monitor_loop emits one realtime and
\* at most one threshold measurement, leaves current_peak = 0 and window_start
\* = the time of the close, and the peak it emitted comes from samples read
\* since the previous close only.  Fails for a serial meter: an empty line
\* re-applies the dB of an earlier sample.
C3_CloseResetsWindow ==
    (program = "mute" /\ h_close.done) =>
      /\ CountKind("realtime") = 1
      /\ CountKind("threshold") <= 1
      /\ current_peak = 0
      /\ window_start = h_close.at
      /\ h_close.peak = h_close.all_max

\* C4 (as stated): a window in which no sample was read still emits a realtime
\* measurement, and its peak is 0.  Fails for a serial meter in mute.py.
C4_EmptyWindowPeakZero ==
    (h_close.closed /\ ~h_close.reads) =>
      /\ h_close.peak = 0
      /\ \E i \in 1..Len(emitted) :
            emitted[i].kind = "realtime" /\ emitted[i].peak = 0

\* The request of main.py for a measurement kind at the current close.
LoopRequest(event_type, payload, timestamp_iso) ==
    [ path    |-> INGEST_ENDPOINTS[event_type],
      payload |-> payload,
      headers |-> [ Authorization  |-> << "Bearer", device_token >>,
                    XMuteTimestamp |-> timestamp_iso,
                    XMuteSignature |-> << "hmac", Secret, << device_id, timestamp_iso >> >> ] ]

InQueue(request, queue) == \E i \in 1..Len(queue) : queue[i] = request

\* The last send of the loop went to the network: at least one POST was made.
HttpTried == h_posts # << >>

\* C9: when the delivery step of a realtime, threshold or heartbeat measurement
\* of measurement_loop finishes after an HTTP send that failed (every candidate
\* exhausted, or a 401/403), the request is in the HTTP offline queue, and the
\* loop goes on to its next step.
C9_FailedSendIsQueued ==
    [][ program = "main" =>
          /\ (pc \in {"inner", "enq_rt"} /\ pc' \in {"send_thr", "heartbeat"}
                /\ HttpTried' /\ ~sent') =>
                InQueue(LoopRequest("realtime",
                                    Payload(ts', current_peak, current_peak), ts'),
                        retry_queue')
          /\ (pc \in {"send_thr", "enq_thr"} /\ pc' = "heartbeat"
                /\ HttpTried' /\ ~sent') =>
                InQueue(LoopRequest("threshold",
                                    Payload(ts', latest_value, current_peak), ts'),
                        retry_queue')
          /\ (pc \in {"heartbeat", "enq_hb"} /\ pc' = "window"
                /\ last_heartbeat' # last_heartbeat /\ HttpTried' /\ ~sent') =>
                InQueue(LoopRequest("heartbeat",
                                    Payload(ts', NoFloat, NoFloat), ts'),
                        retry_queue')
          /\ (pc = "inner" /\ pc' # "inner") => pc' \in {"enq_rt", "send_thr", "heartbeat"}
          /\ (pc = "send_thr" /\ pc' # pc) => pc' \in {"enq_thr", "heartbeat"}
          /\ (pc = "heartbeat" /\ pc' # pc) => pc' \in {"enq_hb", "window"} ]_vars

\* C9 witness: the realtime send of a window failed and its request is the
\* one entry of the queue when the loop has moved on.
C9_Witness ==
    /\ program = "main"
    /\ pc \in {"send_thr", "heartbeat"}
    /\ ~sent
    /\ HttpTried
    /\ Len(retry_queue) = 1
    /\ InQueue(LoopRequest("realtime", Payload(ts, current_peak, current_peak), ts),
               retry_queue)

-----------------------------------------------------------------------------
(* Properties of the retry worker (SpecWorker).                            *)

DelayValues == {2, 4, 8, 16, 32, 60}

\* C11: the backoff delay starts at 2 and is always one of 2, 4, 8, 16, 32,
\* 60; a failed attempt sleeps the current delay, which is doubled up to the
\* ceiling 60 when the sleep ends; a successful attempt resets the delay to 2
\* and the worker goes on to the next item without sleeping.
C11_BackoffDoublesToCeiling ==
    /\ delay = 2
    /\ [][ /\ delay' \in DelayValues
           /\ (wpc = "put" /\ wpc' # wpc) =>
                 wpc' = "backoff" /\ wake_at' = now + delay /\ delay' = delay
           /\ (wpc = "backoff" /\ wpc' # wpc) =>
                 /\ wpc' = "pop"
                 /\ now >= wake_at
                 /\ delay' = IF delay = 60 \/ delay = 32 THEN 60 ELSE 2 * delay
           /\ (wpc = "post" /\ wpc' = "pop") =>
                 delay' = 2 /\ wake_at' = wake_at
           /\ (wpc = "post" /\ wpc' # wpc) => wpc' \in {"pop", "put"} ]_vars

\* C11 witness: the worker sleeps 60 seconds after a failed attempt, the
\* delay having reached the ceiling.
C11_Witness ==
    /\ wpc = "backoff"
    /\ delay = 60
    /\ wake_at = now + 60

\* C12: the worker takes the head of the queue, leaving the rest in order,
\* and sleeps idle only when the queue is empty; an item whose attempt failed
\* is appended behind every entry the queue holds at that moment.
C12_OldestFirstFailedToTail ==
    [][ /\ (wpc = "pop" /\ wpc' = "post") =>
              /\ retry_queue # << >>
              /\ witem' = retry_queue[1]
              /\ retry_queue' = SubSeq(retry_queue, 2, Len(retry_queue))
        /\ (wpc = "pop" /\ wpc' = "idle") => retry_queue = << >>
        /\ (wpc = "put" /\ wpc' # wpc) =>
              /\ Len(retry_queue') = Len(retry_queue) + 1
              /\ retry_queue'[Len(retry_queue')] = witem
              /\ SubSeq(retry_queue', 1, Len(retry_queue)) = retry_queue ]_vars

\* C12 witness: a failed item was put back behind a request enqueued after it.
C12_Witness ==
    /\ wpc = "backoff"
    /\ Len(retry_queue) = 2
    /\ retry_queue[2].payload.timestamp < retry_queue[1].payload.timestamp

\* The request enqueue builds for the realtime payload of timestamp t.
QueuedRequest(t) == LoopRequest("realtime", Payload(t, 0, 0), t)

\* C13: a queued request stays the (path, payload, headers) that was enqueued:
\* every entry of the queue and the item in the worker's hand is the request
\* built for its timestamp; an attempt of the worker leaves the queue as it
\* is and, when it fails, the item too; the put-back adds that item once.
C13_RetryKeepsRequest ==
    /\ [](pc = "idle" /\ program = "main" =>
            /\ \A i \in 1..Len(retry_queue) :
                  retry_queue[i] = QueuedRequest(retry_queue[i].payload.timestamp)
            /\ witem # << >> => witem = QueuedRequest(witem.payload.timestamp))
    /\ [][ /\ (wpc = "post" /\ wpc' # wpc) =>
                 /\ retry_queue' = retry_queue
                 /\ wpc' = "put" => witem' = witem
           /\ (wpc = "put" /\ wpc' # wpc) =>
                 retry_queue' = retry_queue \o << witem >> ]_vars

\* C13 witness: an item that failed twice is back in a queue that holds
\* another request.
C13_Witness ==
    /\ program = "main" /\ pc = "idle"
    /\ wpc = "backoff"
    /\ delay = 4
    /\ Len(retry_queue) = 2
    /\ retry_queue[2] = QueuedRequest(1)

\* What the candidates answer to a POST now, in candidate order.
WorkerAnswers == Answers(backend_pool, backend_preference_index, backend_status)

\* At least one candidate answers 2xx.
SomeCandidate2xx ==
    \E i \in DOMAIN WorkerAnswers : Is2xx(WorkerAnswers[i])

\* A candidate answers 2xx and no candidate before it answers 401 or 403.
Reaches2xx ==
    \E i \in DOMAIN WorkerAnswers :
        /\ Is2xx(WorkerAnswers[i])
        /\ \A j \in 1..(i - 1) : WorkerAnswers[j] \notin {401, 403}

\* Nothing is waiting: the queue is empty and the worker holds no item.
Drained == retry_queue = << >> /\ witem = << >>

\* C14 (as stated): if from some point on at least one candidate answers 2xx
\* to every POST, the worker, fairly scheduled, posts and removes every queued
\* item.  Fails when a candidate that answers 401 precedes the one that
\* answers 2xx: _post returns at the 401 and the item is retried for ever.
C14_DeliveredWhenSomeBackendUp ==
    (<>[]SomeCandidate2xx) => ([]<>Drained)

\* C14 (amended): if from some point on every POST meets a candidate that
\* answers 2xx before any candidate that answers 401 or 403, the worker,
\* fairly scheduled, posts and removes every queued item (SpecWorkerLive).
C14_DeliveredWhenPostReaches2xx ==
    (<>[]Reaches2xx) => ([]<>Drained)

\* C14 witness: every request was enqueued and has been delivered, by failover
\* past a first candidate that does not answer 2xx.
C14_Witness ==
    /\ program = "main" /\ pc = "idle"
    /\ ts = MaxItems
    /\ Drained
    /\ Reaches2xx
    /\ ~Is2xx(WorkerAnswers[1])
    /\ wpc = "pop"

-----------------------------------------------------------------------------
(* Properties of the HTTP offline queue during an outage (SpecOutage).     *)

\* C15 (as stated): while every backend is unreachable the offline queue
\* stays within a fixed bound, however many windows have closed; stated for
\* the bound MaxBacklog.  Fails for every value of the bound: RetryQueue is a
\* deque without a maximum length, every window close appends its request
\* twice (once in _post, once in enqueue) and the worker puts back what it pops.
C15_QueueStaysBounded ==
    program = "main" => Len(retry_queue) <= MaxBacklog

-----------------------------------------------------------------------------
(* Properties of the MQTT publishers and of the durable queue (SpecMqtt).  *)

\* The publishes of the last step that replay a queue row.
Replays == SelectSeq(h_mqtt.log, LAMBDA e : e.id # 0)

\* C16: after a successful connect of mute.py the publishes of the handler
\* are, in this order: the retained discovery config of the realtime sensor,
\* the retained discovery config of the threshold sensor, the retained
\* "online", then the replays of the queue and nothing else.
C16_ConnectAnnouncesBeforeFlush ==
    (program = "mute" /\ h_mqtt.step = "connect") =>
      /\ MQTT_CONNECTED
      /\ Len(h_mqtt.log) >= 3
      /\ h_mqtt.log[1].topic = "realtime_noise_level/config" /\ h_mqtt.log[1].retain
      /\ h_mqtt.log[2].topic = "threshold_noise_level/config" /\ h_mqtt.log[2].retain
      /\ h_mqtt.log[3].topic = "status/availability"
      /\ h_mqtt.log[3].text = "online" /\ h_mqtt.log[3].retain
      /\ \A i \in 1..Len(h_mqtt.log) : (h_mqtt.log[i].id # 0) <=> (i > 3)

\* C16 witness: a connect that replayed two rows after announcing itself.
C16_Witness ==
    /\ program = "mute" /\ h_mqtt.step = "connect"
    /\ Len(h_mqtt.log) = 5
    /\ h_mqtt.log[4].ok /\ h_mqtt.log[5].ok

\* The message type a state topic stands for.
TypeOfTopic(topic) ==
    IF topic \in {"threshold_noise_level/state", "noise/threshold"}
    THEN "threshold" ELSE "realtime"

\* The last step published message m and the publish succeeded.
Acknowledged(m) ==
    \E j \in 1..Len(h_mqtt.log) :
        /\ h_mqtt.log[j].topic = m.topic
        /\ h_mqtt.log[j].payload = m.payload
        /\ h_mqtt.log[j].ok

\* Message m is a row of the durable queue, with its message type.
IsQueued(m) ==
    \E k \in 1..Len(unsent_messages) :
        /\ unsent_messages[k].topic = m.topic
        /\ unsent_messages[k].payload = m.payload
        /\ unsent_messages[k].msg_type = TypeOfTopic(m.topic)

\* C17 (as stated): after the publish step of a realtime or threshold state
\* message, the message was acknowledged as published or is a row of the
\* durable queue.  Holds for send_or_queue of mute.py; fails for
\* MuteqMqttClient (main.py), which has no queue and drops the message.
C17_UnpublishedIsQueued ==
    h_mqtt.step = "state" =>
      \A i \in 1..Len(h_mqtt.handed) :
          Acknowledged(h_mqtt.handed[i]) \/ IsQueued(h_mqtt.handed[i])

\* A step is a successful connect of mute.py: the flush ran.
FlushStep == program = "mute" /\ ~MQTT_CONNECTED /\ MQTT_CONNECTED'

\* The retention ceiling of a message type: 1 hour, 48 hours.
Ceiling(msg_type) == IF msg_type = "realtime" THEN 60 * 60 ELSE 48 * 60 * 60

\* The row is older than its ceiling.
Expired(row) == now - row.created_at > Ceiling(row.msg_type)

\* The replays of the flush of this step, and whether one replays the row.
ReplaysOfStep == SelectSeq(h_mqtt'.log, LAMBDA e : e.id # 0)
ReplayedInStep(row) ==
    \E j \in 1..Len(ReplaysOfStep) : ReplaysOfStep[j].id = row.id
PublishedInStep(row) ==
    \E j \in 1..Len(ReplaysOfStep) :
        ReplaysOfStep[j].id = row.id /\ ReplaysOfStep[j].ok
LeftByStep(row) ==
    \E k \in 1..Len(unsent_messages') : unsent_messages'[k] = row

\* The flush of this step got as far as the row: no publish of an earlier
\* row failed.
ReachedInStep(row) ==
    \A j \in 1..Len(ReplaysOfStep) :
        ReplaysOfStep[j].id < row.id => ReplaysOfStep[j].ok

\* C18: a flush never publishes a row older than its ceiling (realtime 1
\* hour, threshold 48 hours); of the rows the flush gets to, an expired one is
\* deleted unpublished and one within its ceiling is published.
C18_FlushDropsExpired ==
    [][ FlushStep =>
          \A i \in 1..Len(unsent_messages) :
              LET row == unsent_messages[i]
              IN  /\ Expired(row) => ~ReplayedInStep(row)
                  /\ (Expired(row) /\ ReachedInStep(row)) => ~LeftByStep(row)
                  /\ (~Expired(row) /\ ReachedInStep(row)) => ReplayedInStep(row) ]_vars

\* C18 witness: of a threshold row of 49 hours, a realtime row of 61 minutes
\* and a threshold row of 61 minutes, the flush published the last one only
\* and left the table empty.
C18_Witness ==
    /\ program = "mute" /\ h_mqtt.step = "connect"
    /\ next_row_id = 4
    /\ unsent_messages = << >>
    /\ Len(Replays) = 1
    /\ Replays[1].id = 3
    /\ Replays[1].topic = "threshold_noise_level/state"
    /\ Replays[1].payload.timestamp = FlushTime - 3660
    /\ Replays[1].ok

\* The rows of the table from the row of the given id on.
RowsFrom(rows, id) == SelectSeq(rows, LAMBDA r : r.id >= id)

\* C19: when a publish of the flush fails, it is the last publish of the
\* flush; the rows published before it are deleted, the failing row and every
\* row after it stay as they were; and every flush starts with the first row
\* that is within its ceiling, so the next one starts at the failing row.
C19_FlushStopsAtFirstFailure ==
    [][ FlushStep =>
          /\ \A j \in 1..Len(ReplaysOfStep) :
                ~ReplaysOfStep[j].ok =>
                  /\ j = Len(ReplaysOfStep)
                  /\ unsent_messages' = RowsFrom(unsent_messages, ReplaysOfStep[j].id)
          /\ \A i \in 1..Len(unsent_messages) :
                ((\A k \in 1..(i - 1) : Expired(unsent_messages[k]))
                   /\ ~Expired(unsent_messages[i]))
                  => ReplaysOfStep[1].id = unsent_messages[i].id ]_vars

\* C19 witness: of three queued messages the second failed to publish: the
\* first is deleted, the second and the third are in the table.
C19_Witness ==
    /\ program = "mute" /\ h_mqtt.step = "connect"
    /\ Len(Replays) = 2
    /\ Replays[1].ok /\ ~Replays[2].ok
    /\ Len(unsent_messages) = 2
    /\ unsent_messages[1].id = Replays[2].id
    /\ unsent_messages[2].id = Replays[2].id + 1

\* C20: the rows of the table are in ascending id order, the order they were
\* queued in; a flush publishes in ascending id order, every row it leaves is
\* younger in that order than every row it published, and a row it deletes
\* was published with success or had expired.
C20_FlushIsFifo ==
    /\ [](\A i \in 1..(Len(unsent_messages) - 1) :
             unsent_messages[i].id < unsent_messages[i + 1].id)
    /\ [][ FlushStep =>
             /\ \A i, j \in 1..Len(ReplaysOfStep) :
                   i < j => ReplaysOfStep[i].id < ReplaysOfStep[j].id
             /\ \A j \in 1..Len(ReplaysOfStep), k \in 1..Len(unsent_messages') :
                   ReplaysOfStep[j].ok => ReplaysOfStep[j].id < unsent_messages'[k].id
             /\ \A i \in 1..Len(unsent_messages) :
                   LET row == unsent_messages[i]
                   IN  ~LeftByStep(row) => (PublishedInStep(row) \/ Expired(row))
             /\ \A k \in 1..Len(unsent_messages') :
                   \E i \in 1..Len(unsent_messages) :
                       unsent_messages[i] = unsent_messages'[k] ]_vars

\* C20 witness: a flush published a row of a previous run and then a row
\* queued in this run.
C20_Witness ==
    /\ program = "mute" /\ h_mqtt.step = "connect"
    /\ Len(Replays) = 2
    /\ Replays[1].ok /\ Replays[2].ok
    /\ Replays[1].id < Replays[2].id
    /\ Replays[1].payload.timestamp < FlushTime
    /\ Replays[2].payload.timestamp = FlushTime

-----------------------------------------------------------------------------
(* mute.py : watchdog_loop beside the acquisition loop and the MQTT         *)
(* callbacks, for the default window and for a configured longer one.       *)

MaxWatch == 16     \* seconds of clock explored after StartTime in SpecWatchdog

WatchdogInterval == 5             \* time.sleep(5)
WatchdogGap      == 10            \* time.time() - LAST_RT_TS > 10

\* time_window_duration values of the configuration file.
WindowDurations == {TIME_WINDOW, 16}

\* The clock is explored for one window and one watchdog interval, and for
\* MaxWatch seconds at most.
WatchEnd(window) == StartTime + Min2(MaxWatch, window + WatchdogInterval)

InitWatchdog ==
    /\ program = "mute"
    /\ time_window \in WindowDurations
    /\ clock_end = WatchEnd(time_window)
    /\ wd_pc = "sleep"
    /\ wd_wake = StartTime + WatchdogInterval
    /\ h_restart = << >>
    /\ StoreOff
    /\ RunOff
    /\ now = StartTime
    /\ ClientInit(<< >>, 0)
    /\ WorkerInit
    /\ pc = "sample"
    /\ ser_dev = FALSE
    /\ window_start = StartTime - time_window
    /\ current_peak = 0
    /\ latest_value = 0
    /\ dB = NoFloat
    /\ ts = 0
    /\ sent = FALSE
    /\ last_heartbeat = 0
    /\ MQTT_CONNECTED = FALSE
    /\ link = "down"
    /\ mqtt_enabled = TRUE
    /\ unsent_messages = << >>
    /\ next_row_id = 1
    /\ LAST_RT_TS = StartTime
    /\ FIRST_RT_SENT = FALSE
    /\ h_mqtt = NoMqttStep
    /\ HistInit

\* What the watchdog leaves alone until it replaces the process.
watchdogFrame == << program, time_window, clock_end, storeVars, runVars, now, backend_status, clientVars,
                   workerVars, loopVars, mqttVars, h_cands, callHist, winHist >>

\* if time.time() - LAST_RT_TS > 10
watchdog_due(t, last, window) == t - last > WatchdogGap

\* Lines 731-733: the sleep is over and the gap is tested; a gap over the
\* limit starts the restart, otherwise the thread sleeps again.
WatchdogCheck ==
    /\ program = "mute" /\ wd_pc = "sleep"
    /\ now >= wd_wake
    /\ IF watchdog_due(now, LAST_RT_TS, time_window)
       THEN /\ wd_pc' = "publish"
            /\ h_restart' = << >>
            /\ UNCHANGED wd_wake
       ELSE /\ wd_wake' = now + WatchdogInterval
            /\ UNCHANGED << wd_pc, h_restart >>
    /\ UNCHANGED watchdogFrame

\* Variant of init_queue_db that drops the table and creates it again.
init_queue_db_recreated(rows) == << >>

\* init_queue_db, lines 370-382: CREATE TABLE IF NOT EXISTS on the file of a
\* previous run creates nothing; the rows of the file stay as they are.
init_queue_db(rows) == rows

\* Variant of the restart without the try block: an exception ends the thread.
restart_next_unguarded(step, raised) ==
    IF raised THEN "dead"
    ELSE IF step = "publish" THEN "close" ELSE "exec"

\* Lines 734-743: where the restart goes after a step.  An exception in the
\* try block skips the rest of the block; os.execv is after the block.
restart_next(step, raised) ==
    IF step = "publish" /\ ~raised THEN "close" ELSE "exec"

\* Line 736: MQTT_CLIENT.publish(AVAIL_TOPIC, "offline", retain=True).
WatchdogPublishOffline(raised) ==
    /\ program = "mute" /\ wd_pc = "publish"
    /\ wd_pc' = restart_next("publish", raised)
    /\ h_restart' = Append(h_restart, [ step |-> "publish", raised |-> raised ])
    /\ UNCHANGED << watchdogFrame, wd_wake >>

\* Lines 737-738: MQTT_CLIENT.disconnect() and loop_stop().
WatchdogClose(raised) ==
    /\ program = "mute" /\ wd_pc = "close"
    /\ wd_pc' = restart_next("close", raised)
    /\ h_restart' = Append(h_restart, [ step |-> "close", raised |-> raised ])
    /\ UNCHANGED << watchdogFrame, wd_wake >>

\* Lines 742-743: os.execv replaces the process image.  The module state is
\* that of a fresh start; the rows of the SQLite file stay.
WatchdogExec ==
    /\ program = "mute" /\ wd_pc = "exec"
    /\ h_restart' = Append(h_restart, [ step |-> "exec", raised |-> FALSE ])
    /\ wd_pc' = "sleep"
    /\ wd_wake' = now + WatchdogInterval
    /\ pc' = "sample"
    /\ window_start' = now - time_window
    /\ current_peak' = 0
    /\ dB' = NoFloat
    /\ ts' = 0
    /\ MQTT_CONNECTED' = FALSE
    /\ link' = "down"
    /\ FIRST_RT_SENT' = FALSE
    /\ LAST_RT_TS' = now
    /\ h_mqtt' = NoMqttStep
    /\ h_win' = NoWindow
    /\ h_close' = NoClose
    /\ emitted' = << >>
    /\ unsent_messages' = init_queue_db(unsent_messages)
    /\ UNCHANGED << program, time_window, clock_end, storeVars, runVars, now,
                    backend_status, clientVars, workerVars, ser_dev, latest_value, sent, last_heartbeat,
                    mqtt_enabled, next_row_id, h_cands, callHist >>

\* The USB reads of SpecWatchdog: a level under the floor, or an error.
WatchdogReads ==
    { [ kind |-> "data", raw |-> << 243, 1 >> ],
      [ kind |-> "error", raw |-> << >> ] }

NextWatchdog ==
    \/ \E read \in WatchdogReads : MuteSampleUsb(read)
    \/ \E published \in BOOLEAN : MuteCloseRealtime(published)
    \/ MuteNoClose
    \/ \E d \in 0..1 : MuteSleep(d)
    \/ \E rc \in {0, 5} : MqttOnConnect(rc, 0)
    \/ MqttOnDisconnect
    \/ WatchdogCheck
    \/ \E raised \in BOOLEAN : WatchdogPublishOffline(raised)
    \/ \E raised \in BOOLEAN : WatchdogClose(raised)
    \/ WatchdogExec

SpecWatchdog == InitWatchdog /\ [][NextWatchdog]_vars

-----------------------------------------------------------------------------
(* mute.py : the threads that use the SQLite file, step by step under       *)
(* DB_LOCK: main (init_queue_db), the acquisition thread (send_or_queue,    *)
(* queue_message), the MQTT network thread (mqtt_on_connect, flush_queue)   *)
(* and the prune thread (prune_old_messages).                               *)

\* Variant of the lock that lets a thread in while another holds it.
with_lock_not_exclusive(lock) == TRUE

\* with DB_LOCK: the thread enters when no thread holds the lock.
with_lock(lock) == lock = NoOwner

MaxStored == 2     \* rows of a previous run in the table at the start of SpecStore
MaxSends  == 1     \* messages handed to send_or_queue in SpecStore

\* The stored queues of at most n rows.
StoredUpTo(n) == { q \in StoredQueues : Len(q) <= n }

PruneInterval == 3600             \* time.sleep(3600)

\* The steps of the clock beside the prune thread: half a prune interval.
TickSeconds == PruneInterval \div 2

\* main() is entered: no thread holds the lock, none is started.
StoreStart ==
    /\ WatchdogOff
    /\ RunOff
    /\ db_lock = NoOwner
    /\ tpc = [ t \in Threads |-> IF t = "main" THEN "init_wait" ELSE "off" ]
    /\ fl_rows = << >>
    /\ fl_i = 0
    /\ sq_msg = << >>
    /\ prune_wake = 0

InitStore ==
    /\ program = "mute"
    /\ time_window = TIME_WINDOW
    /\ clock_end = FlushTime + PruneInterval
    /\ StoreStart
    /\ now = FlushTime
    /\ ClientInit(<< >>, 0)
    /\ WorkerInit /\ LoopIdle /\ HistInit
    /\ MQTT_CONNECTED = FALSE
    /\ link = "down"
    /\ mqtt_enabled = TRUE
    /\ unsent_messages \in StoredUpTo(MaxStored)
    /\ next_row_id = Len(unsent_messages) + 1
    /\ LAST_RT_TS = 0
    /\ FIRST_RT_SENT = FALSE
    /\ h_mqtt = NoMqttStep

storeFrame == << program, time_window, clock_end, wd_pc, wd_wake, h_restart, runVars,
                backend_status, clientVars, workerVars, loopVars, mqtt_enabled,
                LAST_RT_TS, h_mqtt, h_cands, callHist, winHist >>

\* The thread moves to a position.
Goto(thread, position) == tpc' = [tpc EXCEPT ![thread] = position]

\* DELETE FROM unsent_messages WHERE id = row_id
delete_row(rows, row_id) == SelectSeq(rows, LAMBDA r : r.id # row_id)

\* prune_old_messages: the DELETE with the two cutoffs.
prune_rows(rows, t) ==
    SelectSeq(rows, LAMBDA r : ~(r.created_at < t - retention(r.msg_type)))

\* init_queue_db, line 369: main enters the lock.
MainInitLock ==
    /\ program = "mute" /\ tpc["main"] = "init_wait"
    /\ with_lock(db_lock)
    /\ db_lock' = "main"
    /\ Goto("main", "init_in")
    /\ UNCHANGED << storeFrame, now, prune_wake, fl_rows, fl_i, sq_msg, MQTT_CONNECTED, link, unsent_messages,
                    next_row_id, FIRST_RT_SENT >>

\* init_queue_db, lines 370-382: CREATE TABLE IF NOT EXISTS keeps the rows of
\* the file; the lock is released.  main() then starts the network thread
\* (init_mqtt) and the acquisition and prune threads (lines 763-766).
MainInitDone ==
    /\ program = "mute" /\ tpc["main"] = "init_in"
    /\ db_lock' = NoOwner
    /\ tpc' = [ t \in Threads |->
                 CASE t = "main"  -> "running"
                   [] t = "prune" -> "sleep"
                   [] OTHER       -> "idle" ]
    /\ prune_wake' = now + PruneInterval
    /\ UNCHANGED << storeFrame, now, fl_rows, fl_i, sq_msg, MQTT_CONNECTED, link, unsent_messages,
                    next_row_id, FIRST_RT_SENT >>

\* send_or_queue, lines 553-556: with the broker connected the message is
\* published and the thread waits for the acknowledgement; otherwise it goes
\* to queue_message.
AcqSend(msg_type) ==
    /\ program = "mute" /\ tpc["acq"] = "idle"
    /\ next_row_id <= MaxStored + MaxSends
    /\ sq_msg' = << [ topic |-> state_topic(msg_type),
                      payload |-> MutePayload(8000, now) ] >>
    /\ Goto("acq", IF MQTT_CONNECTED THEN "sq_publish" ELSE "qm_wait")
    /\ UNCHANGED << storeFrame, now, prune_wake, db_lock, fl_rows, fl_i, MQTT_CONNECTED, link, unsent_messages,
                    next_row_id, FIRST_RT_SENT >>

\* send_or_queue, lines 557-574: wait_for_publish returns; an acknowledged
\* message is done, another goes to queue_message.
AcqPublished(ok) ==
    /\ program = "mute" /\ tpc["acq"] = "sq_publish"
    /\ FIRST_RT_SENT' = first_rt_sent(FIRST_RT_SENT, TRUE, ok, sq_msg[1].topic)
    /\ Goto("acq", IF ok THEN "idle" ELSE "qm_wait")
    /\ sq_msg' = IF ok THEN << >> ELSE sq_msg
    /\ UNCHANGED << storeFrame, now, prune_wake, db_lock, fl_rows, fl_i, MQTT_CONNECTED, link, unsent_messages,
                    next_row_id >>

\* queue_message, line 388: the acquisition thread enters the lock.
AcqQueueLock ==
    /\ program = "mute" /\ tpc["acq"] = "qm_wait"
    /\ with_lock(db_lock)
    /\ db_lock' = "acq"
    /\ Goto("acq", "qm_in")
    /\ UNCHANGED << storeFrame, now, prune_wake, fl_rows, fl_i, sq_msg, MQTT_CONNECTED, link, unsent_messages,
                    next_row_id, FIRST_RT_SENT >>

\* queue_message, lines 389-394: INSERT, commit, and the lock is released.
AcqQueueInsert ==
    /\ program = "mute" /\ tpc["acq"] = "qm_in"
    /\ unsent_messages' = queue_message(unsent_messages, next_row_id, sq_msg[1].topic,
                                        sq_msg[1].payload, msg_type_of(sq_msg[1].topic),
                                        now)
    /\ next_row_id' = next_row_id + 1
    /\ sq_msg' = << >>
    /\ db_lock' = NoOwner
    /\ Goto("acq", "idle")
    /\ UNCHANGED << storeFrame, now, prune_wake, fl_rows, fl_i, MQTT_CONNECTED, link, FIRST_RT_SENT >>

\* mqtt_on_connect, lines 455-464: rc = 0 sets the flag, publishes discovery
\* and "online" and calls flush_queue; another rc only logs.
NetConnect(rc) ==
    /\ program = "mute" /\ tpc["net"] = "idle"
    /\ ~MQTT_CONNECTED
    /\ IF rc = 0
       THEN MQTT_CONNECTED' = TRUE /\ link' = "up" /\ Goto("net", "fl_wait")
       ELSE link' = "refused" /\ UNCHANGED << MQTT_CONNECTED, tpc >>
    /\ UNCHANGED << storeFrame, now, prune_wake, db_lock, fl_rows, fl_i, sq_msg, unsent_messages,
                    next_row_id, FIRST_RT_SENT >>

\* mqtt_on_disconnect, run by the network thread between callbacks.
NetDisconnect ==
    /\ program = "mute" /\ tpc["net"] = "idle"
    /\ MQTT_CONNECTED
    /\ MQTT_CONNECTED' = FALSE
    /\ link' = "down"
    /\ UNCHANGED << storeFrame, now, storeVars, unsent_messages, next_row_id, FIRST_RT_SENT >>

\* flush_queue, lines 400-405: the network thread enters the lock and reads
\* all rows in id order.
NetFlushLock ==
    /\ program = "mute" /\ tpc["net"] = "fl_wait"
    /\ with_lock(db_lock)
    /\ db_lock' = "net"
    /\ fl_rows' = unsent_messages
    /\ fl_i' = 1
    /\ Goto("net", "fl_row")
    /\ UNCHANGED << storeFrame, now, prune_wake, sq_msg, MQTT_CONNECTED, link, unsent_messages, next_row_id,
                    FIRST_RT_SENT >>

\* flush_queue, lines 406-414: the loop takes the next row; an expired row is
\* deleted, another is handed to client.publish; after the last row the with
\* block ends.
NetFlushRow ==
    /\ program = "mute" /\ tpc["net"] = "fl_row"
    /\ IF fl_i > Len(fl_rows)
       THEN /\ db_lock' = NoOwner
            /\ fl_rows' = << >>
            /\ fl_i' = 0
            /\ Goto("net", "idle")
            /\ UNCHANGED unsent_messages
       ELSE IF now - fl_rows[fl_i].created_at > retention(fl_rows[fl_i].msg_type)
       THEN /\ unsent_messages' = delete_row(unsent_messages, fl_rows[fl_i].id)
            /\ fl_i' = fl_i + 1
            /\ UNCHANGED << db_lock, fl_rows, tpc >>
       ELSE /\ Goto("net", "fl_publish")
            /\ UNCHANGED << db_lock, fl_rows, fl_i, unsent_messages >>
    /\ UNCHANGED << storeFrame, now, prune_wake, sq_msg, MQTT_CONNECTED, link, next_row_id, FIRST_RT_SENT >>

\* flush_queue, lines 415-422: wait_for_publish returns; an acknowledged row
\* is deleted and the loop goes on, otherwise the loop breaks and the with
\* block ends.
NetFlushPublished(ok) ==
    /\ program = "mute" /\ tpc["net"] = "fl_publish"
    /\ IF ok
       THEN /\ unsent_messages' = delete_row(unsent_messages, fl_rows[fl_i].id)
            /\ fl_i' = fl_i + 1
            /\ Goto("net", "fl_row")
            /\ UNCHANGED << db_lock, fl_rows >>
       ELSE /\ db_lock' = NoOwner
            /\ fl_rows' = << >>
            /\ fl_i' = 0
            /\ Goto("net", "idle")
            /\ UNCHANGED unsent_messages
    /\ UNCHANGED << storeFrame, now, prune_wake, sq_msg, MQTT_CONNECTED, link, next_row_id, FIRST_RT_SENT >>

\* prune_loop and prune_old_messages, lines 720 and 427-428: the sleep ends
\* and the cutoffs are computed.
PruneWake ==
    /\ program = "mute" /\ tpc["prune"] = "sleep"
    /\ now >= prune_wake
    /\ Goto("prune", "pr_wait")
    /\ UNCHANGED << storeFrame, now, prune_wake, db_lock, fl_rows, fl_i, sq_msg, MQTT_CONNECTED, link,
                    unsent_messages, next_row_id, FIRST_RT_SENT >>

\* prune_old_messages, line 429: the prune thread enters the lock.
PruneLock ==
    /\ program = "mute" /\ tpc["prune"] = "pr_wait"
    /\ with_lock(db_lock)
    /\ db_lock' = "prune"
    /\ Goto("prune", "pr_in")
    /\ UNCHANGED << storeFrame, now, prune_wake, fl_rows, fl_i, sq_msg, MQTT_CONNECTED, link, unsent_messages,
                    next_row_id, FIRST_RT_SENT >>

\* prune_old_messages, lines 430-436: DELETE, commit, and the lock is released.
PruneDelete ==
    /\ program = "mute" /\ tpc["prune"] = "pr_in"
    /\ unsent_messages' = prune_rows(unsent_messages, now)
    /\ db_lock' = NoOwner
    /\ Goto("prune", "sleep")
    /\ prune_wake' = now + PruneInterval
    /\ UNCHANGED << storeFrame, now, fl_rows, fl_i, sq_msg, MQTT_CONNECTED, link, next_row_id,
                    FIRST_RT_SENT >>

\* The clock advances while the threads are where they are; the prune thread
\* wakes when its sleep is over.
StoreTick ==
    /\ program = "mute" /\ tpc["main"] = "running"
    /\ now + TickSeconds <= clock_end
    /\ (tpc["prune"] = "sleep") => (now + TickSeconds <= prune_wake)
    /\ now' = now + TickSeconds
    /\ UNCHANGED << storeFrame, storeVars, MQTT_CONNECTED, link, unsent_messages, next_row_id,
                    FIRST_RT_SENT >>

NextStore ==
    \/ MainInitLock
    \/ MainInitDone
    \/ \E msg_type \in MsgTypes : AcqSend(msg_type)
    \/ \E ok \in BOOLEAN : AcqPublished(ok)
    \/ AcqQueueLock
    \/ AcqQueueInsert
    \/ \E rc \in {0, 5} : NetConnect(rc)
    \/ NetDisconnect
    \/ NetFlushLock
    \/ NetFlushRow
    \/ \E ok \in BOOLEAN : NetFlushPublished(ok)
    \/ PruneWake
    \/ PruneLock
    \/ PruneDelete
    \/ StoreTick

SpecStore == InitStore /\ [][NextStore]_vars

-----------------------------------------------------------------------------
(* mute.py : a run in which the broker never accepts the connection, with   *)
(* the prune thread, over several prune intervals.                          *)

MaxTicks == 4      \* steps of the clock explored in SpecPrune

\* The rows a previous run that pruned every hour can have left: none is
\* older than its ceiling and one prune interval when this run starts.
PrunedQueues ==
    { q \in StoredUpTo(MaxStored) :
        \A i \in 1..Len(q) :
            FlushTime - q[i].created_at <= retention(q[i].msg_type) + PruneInterval }

InitPrune ==
    /\ program = "mute"
    /\ time_window = TIME_WINDOW
    /\ clock_end = FlushTime + MaxTicks * TickSeconds
    /\ StoreStart
    /\ now = FlushTime
    /\ ClientInit(<< >>, 0)
    /\ WorkerInit /\ LoopIdle /\ HistInit
    /\ MQTT_CONNECTED = FALSE
    /\ link = "down"
    /\ mqtt_enabled = TRUE
    /\ unsent_messages \in PrunedQueues
    /\ next_row_id = Len(unsent_messages) + 1
    /\ LAST_RT_TS = 0
    /\ FIRST_RT_SENT = FALSE
    /\ h_mqtt = NoMqttStep

\* The broker refuses every connection: mqtt_on_connect only logs, and no
\* step of the network thread changes the state.
NextPrune ==
    \/ MainInitLock
    \/ MainInitDone
    \/ \E msg_type \in MsgTypes : AcqSend(msg_type)
    \/ AcqQueueLock
    \/ AcqQueueInsert
    \/ PruneWake
    \/ PruneLock
    \/ PruneDelete
    \/ StoreTick

SpecPrune == InitPrune /\ [][NextPrune]_vars

-----------------------------------------------------------------------------
(* Claims about the watchdog.                                               *)

\* The step published a realtime state message that the broker acknowledged.
RealtimePublishedInStep ==
    \E i \in 1..Len(h_mqtt'.log) :
        /\ h_mqtt'.log[i].topic = "realtime_noise_level/state"
        /\ h_mqtt'.log[i].id = 0
        /\ h_mqtt'.log[i].ok

\* C28 (as stated): the timestamp the watchdog reads, LAST_RT_TS, moves only
\* in a step that published a realtime message to the broker, and not in a
\* step that only put the message on the offline queue.
C28_LastSuccessOnlyOnPublish ==
    [][ (program = "mute" /\ LAST_RT_TS' # LAST_RT_TS) => RealtimePublishedInStep ]_vars

\* The watchdog decides to restart in this step.
RestartTriggered == program = "mute" /\ wd_pc = "sleep" /\ wd_pc' = "publish"

\* allowed_gap = max(10 s, 2 x window_duration + 5 s)
allowed_gap(window) == Max2(10, 2 * window + 5)

\* C26 (as stated): the watchdog restarts only when the time since the last
\* realtime success is over max(10 s, 2 x window_duration + 5 s), so a loop
\* that closes a window every window_duration is never restarted.
C26_RestartOnlyBeyondAllowedGap ==
    [][ RestartTriggered => now - LAST_RT_TS > allowed_gap(time_window) ]_vars

\* C27 (as stated): the watchdog never restarts before the first realtime
\* message was published with success, and never while the broker is
\* disconnected.
C27_NoRestartBeforeFirstSendNorOffline ==
    [][ RestartTriggered => (FIRST_RT_SENT /\ MQTT_CONNECTED) ]_vars

\* C29: a restart publishes "offline" first, closes the transport second and
\* replaces the process last; the close follows a publish that did not raise,
\* and after a step that raised the replacement is the next step: no failure
\* ends the restart.
C29_RestartOrder ==
    /\ wd_pc # "dead"
    /\ \A i \in 1..Len(h_restart) :
          /\ h_restart[i].step = "publish" => i = 1
          /\ h_restart[i].step = "close" =>
                (i = 2 /\ h_restart[1].step = "publish" /\ ~h_restart[1].raised)
          /\ h_restart[i].step = "exec" =>
                /\ i = Len(h_restart) /\ i >= 2
                /\ h_restart[1].step = "publish"
                /\ (h_restart[i - 1].step = "close" \/ h_restart[i - 1].raised)
          /\ (h_restart[i].raised /\ i = Len(h_restart)) => wd_pc = "exec"
    /\ (h_restart = << >>) => wd_pc \in {"off", "sleep", "publish"}
    /\ (h_restart # << >> /\ h_restart[Len(h_restart)].step = "publish"
          /\ ~h_restart[Len(h_restart)].raised) => wd_pc = "close"
    /\ (h_restart # << >> /\ h_restart[Len(h_restart)].step = "close") => wd_pc = "exec"

\* C29 witness: the process was replaced although the close of the transport
\* raised after the "offline" publish.
C29_Witness ==
    /\ program = "mute"
    /\ Len(h_restart) = 3
    /\ h_restart[1] = [ step |-> "publish", raised |-> FALSE ]
    /\ h_restart[2] = [ step |-> "close", raised |-> TRUE ]
    /\ h_restart[3].step = "exec"
    /\ wd_pc = "sleep"
    /\ LAST_RT_TS = now

\* The thread is inside an operation on the SQLite file.
InStore(t) == tpc[t] \in {"init_in", "qm_in", "fl_row", "fl_publish", "pr_in"}

\* C22: init_queue_db, queue_message, flush_queue and prune_old_messages run
\* under DB_LOCK: a thread inside a store operation holds the lock, and no two
\* threads are inside a store operation at the same time.
C22_StoreMutualExclusion ==
    \A t \in Threads :
        InStore(t) =>
          /\ db_lock = t
          /\ \A u \in Threads \ {t} : ~InStore(u)

\* C22 witness: the acquisition thread waits for the lock with a message to
\* queue while the network thread is inside the flush, and the prune thread
\* waits too.
C22_Witness ==
    /\ program = "mute"
    /\ tpc["net"] = "fl_row" /\ db_lock = "net" /\ fl_i = 2
    /\ tpc["acq"] = "qm_wait"
    /\ tpc["prune"] = "pr_wait"

\* The thread is in an MQTT publish or waits for its acknowledgement.
InNetworkCall(t) == tpc[t] \in {"sq_publish", "fl_publish"}

\* C23 (as stated, for the threads of mute.py): a thread that is in an MQTT
\* publish, or waits for its acknowledgement, does not hold the lock of the
\* durable store.
C23_NoLockAcrossNetworkCall ==
    \A t \in Threads : InNetworkCall(t) => db_lock # t

\* C21 (as stated): while the broker stays away the durable queue never holds
\* a row older than its ceiling plus one prune interval (realtime: two hours,
\* threshold: 49 hours).
C21_QueueAgeBounded ==
    program = "mute" =>
      \A i \in 1..Len(unsent_messages) :
          now - unsent_messages[i].created_at
            <= Ceiling(unsent_messages[i].msg_type) + PruneInterval

-----------------------------------------------------------------------------
(* SpecRun: MuteqClientApp.run of main.py from the loaded configuration to *)
(* the end of the process: the registration loop, the start of the worker  *)
(* and of the measurement loop, the signal handler and the shutdown.       *)

MaxRun == 2        \* seconds of the measurement loop explored in SpecRun

\* The two paths register_device posts to, in the order of line 139.
RegisterEndpoints == << "/api/register", "/api/client/register" >>

\* What a backend can answer to one registration POST: status 0 stands for a
\* requests.RequestException; body is "dict" for a JSON object with the two
\* fields as given (None: the key is absent), "list" for JSON that is not an
\* object, "text" for a body that is not JSON.
RegisterAnswers ==
    { [ status |-> 200, body |-> "dict", device_id |-> "dev1", device_token |-> "tok1" ],
      [ status |-> 201, body |-> "dict", device_id |-> "dev1", device_token |-> "tok1" ],
      [ status |-> 200, body |-> "dict", device_id |-> "dev1", device_token |-> None ],
      [ status |-> 200, body |-> "dict", device_id |-> None, device_token |-> None ],
      [ status |-> 200, body |-> "list", device_id |-> None, device_token |-> None ],
      [ status |-> 200, body |-> "text", device_id |-> None, device_token |-> None ],
      [ status |-> 500, body |-> "text", device_id |-> None, device_token |-> None ],
      [ status |-> 0, body |-> "text", device_id |-> None, device_token |-> None ] }

\* self.cfg.get("device_name") or "MUTEq Sensor"
DeviceName == "MUTEq Sensor"

\* secrets.token_hex(16): the i-th draw of a register_device call.  Two draws
\* give two values; the draws of another call are other values again.
token_hex(i) == << "nonce", i >>

\* The (candidate, path) pairs of the two nested loops of register_device, in
\* the order the loops visit them, each with the nonce drawn at the head of
\* the outer loop (line 134) for its candidate.
register_attempts(cands) ==
    [ k \in 1..(2 * Len(cands)) |->
        [ base |-> cands[((k - 1) \div 2) + 1],
          endpoint |-> RegisterEndpoints[((k - 1) % 2) + 1],
          nonce |-> token_hex(((k - 1) \div 2) + 1) ] ]

\* BackendClient.register_device from its k-th (candidate, path) pair on;
\* answers gives what each base answers on each path, posts the POSTs made so
\* far.  A 200 or 201 with a JSON object returns its two fields at once; with
\* JSON that is no object data.get raises AttributeError, which nothing
\* catches; every other answer goes on to the next pair.
RECURSIVE register_from(_, _, _, _)
register_from(attempts, answers, k, posts) ==
    IF k > Len(attempts)
    THEN [ device_id |-> None, device_token |-> None, posts |-> posts,
           raised |-> FALSE ]
    ELSE LET at == attempts[k]
             a == answers[<< at.base, at.endpoint >>]
             made == Append(posts, [ base |-> at.base, endpoint |-> at.endpoint,
                                     nonce |-> at.nonce,
                                     signature |-> build_registration_signature(
                                                       Secret, DeviceName, at.nonce),
                                     answer |-> a ])
         IN  IF a.status = 0
             THEN register_from(attempts, answers, k + 1, made)
             ELSE IF a.status \in {200, 201}
                  THEN IF a.body = "dict"
                       THEN [ device_id |-> a.device_id,
                              device_token |-> a.device_token,
                              posts |-> made, raised |-> FALSE ]
                       ELSE IF a.body = "list"
                            THEN [ device_id |-> None, device_token |-> None,
                                   posts |-> made, raised |-> TRUE ]
                            ELSE register_from(attempts, answers, k + 1, made)
                  ELSE register_from(attempts, answers, k + 1, made)

register_device(pool, index, answers) ==
    register_from(register_attempts(backend_candidates(pool, index)), answers, 1, << >>)

\* str.strip() on the identity strings of the model.
strip(s) == IF s = " " THEN "" ELSE s

\* The identity fields a configuration file can hold: none, both, a token
\* without an id, and an id of blanks.
ConfigFiles ==
    { NoConfig,
      [ assigned_device_id |-> "dev1", device_token |-> "tok1" ],
      [ assigned_device_id |-> None, device_token |-> "tok1" ],
      [ assigned_device_id |-> " ", device_token |-> "tok1" ] }

\* load_config, line 74: the needs_registration it returns for a file.
load_needs_registration(file) ==
    Falsy(file.assigned_device_id) \/ Falsy(file.device_token)

\* validate_config, lines 116-119: the fields that are set are stripped.
validate_config(c) ==
    [ assigned_device_id |-> IF Falsy(c.assigned_device_id) THEN c.assigned_device_id
                             ELSE strip(c.assigned_device_id),
      device_token |-> IF Falsy(c.device_token) THEN c.device_token
                       ELSE strip(c.device_token) ]

\* persist_config: the file after the call; a failed write is logged only.
persist_config(file, c, written) == IF written THEN c ELSE file

\* The condition of the while of ensure_registration, line 64.
registration_pending(c, needs) ==
    c.assigned_device_id = None \/ c.device_token = None \/ needs

\* build_backend_pool: the two backends of the configuration.
RunPool == << "A", "B" >>

InitRun ==
    /\ program = "main"
    /\ time_window = TIME_WINDOW
    /\ clock_end = StartTime + MaxRun
    /\ WatchdogOff
    /\ StoreOff
    \* __init__, register_signals, and ensure_registration up to its while
    /\ run_pc = "reg_loop"
    /\ cfg_file \in ConfigFiles
    /\ cfg = validate_config(cfg_file)
    /\ needs_registration = load_needs_registration(cfg_file)
    /\ stop_event = FALSE
    /\ h_reg = NoRegister
    /\ now = StartTime
    /\ backend_pool = RunPool
    /\ backend_status \in [PoolSet(RunPool) -> {200}]
    /\ backend_preference_index \in {0, 1}
    /\ device_id = None
    /\ device_token = None
    /\ retry_queue = << >>
    /\ WorkerInit /\ LoopIdle /\ MqttIdle /\ HistInit

runFrame == << program, time_window, clock_end, wd_pc, wd_wake, h_restart, storeVars,
              now, backend_status, backend_pool, retry_queue, witem, delay, wake_at,
              ser_dev, window_start, current_peak, latest_value, dB, ts, sent,
              mqttVars, h_cands, callHist, winHist >>

\* register_signals, lines 53-55: SIGINT or SIGTERM arrives.
SignalHandler ==
    /\ program = "main" /\ run_pc \notin {"off", "exited", "crashed"}
    /\ ~stop_event
    /\ stop_event' = TRUE
    /\ UNCHANGED << runFrame, run_pc, cfg, needs_registration, cfg_file, h_reg,
                    backend_preference_index, device_id, device_token, wpc, pc,
                    last_heartbeat >>

\* ensure_registration, line 64: the head of the while.
RegLoopHead ==
    /\ program = "main" /\ run_pc = "reg_loop"
    /\ run_pc' = IF registration_pending(cfg, needs_registration)
                 THEN "register" ELSE "reg_exit"
    /\ h_reg' = NoRegister
    /\ UNCHANGED << runFrame, cfg, needs_registration, cfg_file, stop_event,
                    backend_preference_index, device_id, device_token, wpc, pc,
                    last_heartbeat >>

\* ensure_registration, lines 65-76: one register_device call; with both
\* values the configuration is set and saved, else the sleep follows.  An
\* exception of register_device leaves run() before its try.
RegRegister(answers, written) ==
    /\ program = "main" /\ run_pc = "register"
    /\ LET r == register_device(backend_pool, backend_preference_index, answers)
       IN  /\ h_reg' = << r >>
           /\ IF r.raised
              THEN /\ run_pc' = "crashed"
                   /\ UNCHANGED << cfg, cfg_file, needs_registration >>
              ELSE IF ~Falsy(r.device_id) /\ ~Falsy(r.device_token)
                   THEN /\ cfg' = [ assigned_device_id |-> r.device_id,
                                    device_token |-> r.device_token ]
                        /\ cfg_file' = persist_config(cfg_file, cfg', written)
                        /\ needs_registration' = FALSE
                        /\ run_pc' = "reg_loop"
                   ELSE /\ run_pc' = "reg_sleep"
                        /\ UNCHANGED << cfg, cfg_file, needs_registration >>
    /\ UNCHANGED << runFrame, stop_event, backend_preference_index, device_id,
                    device_token, wpc, pc, last_heartbeat >>

\* ensure_registration, line 78: time.sleep(10) is over.
RegSleep ==
    /\ program = "main" /\ run_pc = "reg_sleep"
    /\ run_pc' = "reg_loop"
    /\ UNCHANGED << runFrame, cfg, needs_registration, cfg_file, stop_event, h_reg,
                    backend_preference_index, device_id, device_token, wpc, pc,
                    last_heartbeat >>

\* ensure_registration, lines 79-84: set_credentials with the configured
\* values, then BackendClient.start starts the worker.
RegExit ==
    /\ program = "main" /\ run_pc = "reg_exit"
    /\ device_id' = cfg.assigned_device_id
    /\ device_token' = cfg.device_token
    /\ backend_preference_index' = backend_preference_index
    /\ wpc' = "pop"
    /\ run_pc' = "init"
    /\ UNCHANGED << runFrame, cfg, needs_registration, cfg_file, stop_event, h_reg,
                    pc, last_heartbeat >>

\* run, lines 258-261: init_usb leaves the process when no meter is found
\* (find_usb_device, sys.exit(1)); init_mqtt returns at once, MQTT being
\* disabled; measurement_loop starts with last_heartbeat = 0.0.
RunInit(found) ==
    /\ program = "main" /\ run_pc = "init"
    /\ IF found
       THEN /\ run_pc' = "measure"
            /\ pc' = "window"
            /\ last_heartbeat' = 0
            /\ wpc' = wpc
       ELSE /\ run_pc' = "exited"
            /\ wpc' = "stopped"
            /\ UNCHANGED << pc, last_heartbeat >>
    /\ UNCHANGED << runFrame, cfg, needs_registration, cfg_file, stop_event, h_reg,
                    backend_preference_index, device_id, device_token >>

\* measurement_loop, line 179: the flag is set at the loop head; the finally
\* of run() follows.
MainLoopExit ==
    /\ program = "main" /\ run_pc = "measure" /\ pc = "window"
    /\ stop_event
    /\ pc' = "idle"
    /\ run_pc' = "shutdown"
    /\ UNCHANGED << runFrame, cfg, needs_registration, cfg_file, stop_event, h_reg,
                    backend_preference_index, device_id, device_token, wpc,
                    last_heartbeat >>

\* shutdown, lines 208-213, and the return of run(): BackendClient.stop sets
\* the event of the worker and waits two seconds for it; the worker is a
\* daemon thread and ends with the process at the latest.
RunShutdown ==
    /\ program = "main" /\ run_pc = "shutdown"
    /\ wpc' = "stopped"
    /\ run_pc' = "exited"
    /\ UNCHANGED << runFrame, cfg, needs_registration, cfg_file, stop_event, h_reg,
                    backend_preference_index, device_id, device_token, pc,
                    last_heartbeat >>

\* What every base answers on every path to one register_device call.
RegisterResponses == [ PoolSet(RunPool) \X PoolSet(RegisterEndpoints) -> RegisterAnswers ]

\* Every backend accepts the ingest POSTs of the measurement loop; a send
\* fails, and its enqueue drops the request, when the credentials are empty.
Accepting == [ i \in 1..Len(backend_pool) |-> 200 ]

\* The steps of the main thread.
NextRunMain ==
    \/ RegLoopHead
    \/ \E answers \in RegisterResponses, written \in BOOLEAN : RegRegister(answers, written)
    \/ RegSleep
    \/ RegExit
    \/ \E found \in BOOLEAN : RunInit(found)
    \/ MainWindowStart
    \/ \E read \in UsbReads, d \in 0..1 : MainSample(read, d)
    \/ MainSendRealtime(Accepting)
    \/ MainEnqueueRealtime
    \/ MainSendThreshold(Accepting)
    \/ MainEnqueueThreshold
    \/ MainHeartbeatSkip
    \/ MainHeartbeatSend(Accepting)
    \/ MainHeartbeatEnqueue
    \/ MainLoopExit
    \/ RunShutdown

NextRun ==
    \/ NextRunMain
    \/ SignalHandler
    \/ WorkerPop
    \/ WorkerWake

SpecRun == InitRun /\ [][NextRun]_vars

\* The main thread keeps running while it has a step to take.
SpecRunLive == SpecRun /\ WF_vars(NextRunMain)

\* The answer is a success response whose JSON body holds both fields.
RegisteredBy(a) ==
    /\ a.status \in {200, 201}
    /\ a.body = "dict"
    /\ a.device_id # None /\ a.device_token # None

\* C25 (as stated): register_device posts to the candidates in rotation
\* order, to both paths of each; it returns a value only from a success
\* response whose body holds both device_id and device_token, goes on to the
\* next path or candidate after every other answer, and returns (None, None)
\* only when every candidate has been tried on both paths.
C25_RegisterTriesEveryCandidate ==
    (program = "main" /\ h_reg # NoRegister /\ ~h_reg[1].raised) =>
      LET r == h_reg[1]
          attempts == register_attempts(
                          backend_candidates(backend_pool, backend_preference_index))
          n == Len(r.posts)
      IN  /\ n >= 1 /\ n <= Len(attempts)
          /\ \A k \in 1..n : /\ r.posts[k].base = attempts[k].base
                             /\ r.posts[k].endpoint = attempts[k].endpoint
          /\ \A k \in 1..(n - 1) : ~RegisteredBy(r.posts[k].answer)
          /\ IF RegisteredBy(r.posts[n].answer)
             THEN /\ r.device_id = r.posts[n].answer.device_id
                  /\ r.device_token = r.posts[n].answer.device_token
             ELSE /\ n = Len(attempts)
                  /\ r.device_id = None /\ r.device_token = None

\* The main thread has left the while of ensure_registration.
RegistrationLeft == run_pc \in {"reg_exit", "init", "measure", "shutdown", "exited"}

\* Both values of the identity are set.
CompleteIdentity(id, token) == ~Falsy(id) /\ ~Falsy(token)

\* C24 (as stated): the registration loop is left only with device_id and
\* device_token both set and saved to the configuration file; before that no
\* sample is read, no ingest request is sent and the retry worker is not
\* started; the loop sleeps only after a register_device call that gave no
\* identity.
C24_RegistrationGates ==
    (program = "main" /\ run_pc # "off") =>
      /\ RegistrationLeft =>
           /\ CompleteIdentity(cfg.assigned_device_id, cfg.device_token)
           /\ cfg_file = cfg
      /\ (wpc # "not started" \/ pc # "idle" \/ h_win # NoWindow \/ h_posts # << >>) =>
           /\ RegistrationLeft
           /\ CompleteIdentity(device_id, device_token)
      /\ run_pc = "reg_sleep" =>
           /\ h_reg # NoRegister
           /\ ~CompleteIdentity(h_reg[1].device_id, h_reg[1].device_token)

\* The process has ended.
Terminated == run_pc \in {"exited", "crashed"}

\* C30 (as stated, for main.py): once the shutdown flag is set the process
\* terminates, whatever the backends answer.
C30_StopTerminates == stop_event ~> Terminated

\* How many times x occurs in the sequence s.
Occurrences(s, x) == Cardinality({ i \in 1..Len(s) : s[i] = x })

\* t holds the entries of s, each as many times as s does.
IsPermutation(s, t) ==
    /\ Len(s) = Len(t)
    /\ \A i \in 1..Len(s) : Occurrences(t, s[i]) = Occurrences(s, s[i])

\* C36: for every pool and every integer preference index, negative or beyond
\* the pool length included, _backend_candidates yields the entries of the
\* pool, each as often as the pool holds it (SpecCandidates).
C36_CandidatesArePermutation ==
    (program = "client" /\ h_cands # NotComputed) =>
      /\ backend_pool # << >>
      /\ IsPermutation(backend_pool, h_cands)

\* C36 witness: candidates computed for a pool of three distinct backends
\* under a negative index, and the result is not the pool as configured.
C36_Witness ==
    /\ program = "client"
    /\ Len(backend_pool) = 3
    /\ Occurrences(backend_pool, backend_pool[1]) = 1
    /\ backend_preference_index < 0
    /\ h_cands # NotComputed /\ h_cands # backend_pool

\* C38 (as stated): the connected flag of a publisher is set only while the
\* connection stands, i.e. between a connect callback with rc = 0 and the next
\* loss of the connection: a refused connection does not set it and a lost
\* connection clears it (MQTT_CONNECTED of mute.py, connected of
\* MuteqMqttClient).
C38_ConnectedOnlyWhileLinkUp ==
    MQTT_CONNECTED => link = "up"

\* C32 (as stated, for the requests of one register_device call): no two
\* registration requests carry the same X-MUTE-NONCE or the same signature.
C32_FreshNoncePerRequest ==
    (program = "main" /\ h_reg # NoRegister) =>
      \A j, k \in 1..Len(h_reg[1].posts) :
          j # k => /\ h_reg[1].posts[j].nonce # h_reg[1].posts[k].nonce
                   /\ h_reg[1].posts[j].signature # h_reg[1].posts[k].signature

\* C33 (as stated): the retry queue of main.py holds no request twice: a
\* measurement whose send failed adds one entry for its (path, payload,
\* headers), and two measurements differ in path or timestamp.
C33_FailedSendQueuedOnce ==
    program = "main" =>
      \A i \in 1..Len(retry_queue) : Occurrences(retry_queue, retry_queue[i]) = 1

\* The request is in the queue or in the hand of the worker.
Kept(x) == witem = x \/ \E i \in 1..Len(retry_queue) : retry_queue[i] = x

\* The first candidate answers 401 or 403, which ends every attempt.
AuthRejects == WorkerAnswers[1] \in {401, 403}

\* C34: a request leaves the queue and the hand of the worker only in an
\* attempt that a candidate answers with 2xx; after any other attempt, one
\* ended by 401/403 included, it is put back, and while the backends go on
\* rejecting with 401/403 the worker goes on attempting (SpecWorkerLive).
C34_RemovedOnlyAfter2xx ==
    /\ [][ \A t \in 1..MaxItems :
              (Kept(QueuedRequest(t)) /\ ~Kept(QueuedRequest(t))') =>
                  (wpc = "post" /\ witem = QueuedRequest(t) /\ Reaches2xx) ]_vars
    /\ (([]AuthRejects) /\ <>(~Drained)) => ([]<>(wpc = "post"))

\* C34 witness: a request that the first candidate rejected with 401 three
\* times is back in the queue, the worker sleeping its backoff.
C34_Witness ==
    /\ program = "main" /\ pc = "idle"
    /\ AuthRejects
    /\ wpc = "backoff"
    /\ delay = 8
    /\ Kept(QueuedRequest(1))

-----------------------------------------------------------------------------
(* SpecPoison: the retry worker with one request that no attempt delivers  *)
(* while the backends accept every other request.                          *)

\* Timestamp of the request that fails on every attempt.
Poison == 1

\* What the candidates answer to the request that always fails.
PoisonStatuses == {401, 500, NetErr}

InitPoison ==
    /\ InitWorker
    /\ backend_status = [ b \in {"A", "B"} |-> 200 ]

\* RetryWorker.run line 64: the attempt for the item in hand; every candidate
\* answers status to the poisoned request and 200 to any other.
PoisonAttempt(status) ==
    /\ pc = "idle"
    /\ WorkerPost(IF witem = QueuedRequest(Poison)
                  THEN [ i \in 1..Len(backend_pool) |-> status ]
                  ELSE Accepting)

\* The attempt, whatever the poisoned request is answered.
PoisonAttempts == \E status \in PoisonStatuses : PoisonAttempt(status)

NextPoison ==
    \/ LoopEnqueues
    \/ WorkerPop
    \/ \E status \in PoisonStatuses : PoisonAttempt(status)
    \/ WorkerPutBack
    \/ WorkerWake
    \/ WorkerSleeps

SpecPoison == InitPoison /\ [][NextPoison]_vars

\* Fair scheduling of the retry worker.
PoisonFairness ==
    /\ WF_vars(WorkerPop)
    /\ WF_vars(PoisonAttempts)
    /\ WF_vars(WorkerPutBack)
    /\ WF_vars(WorkerWake)
    /\ WF_vars(WorkerSleeps)

SpecPoisonLive == SpecPoison /\ PoisonFairness

\* C35: no head-of-line blocking: with one request that fails on every
\* attempt and backends that accept every other request, each other request
\* that is queued is eventually delivered and removed, while the failing one
\* stays (SpecPoisonLive, the worker fairly scheduled).
C35_NoHeadOfLineBlocking ==
    /\ \A t \in (1..MaxItems) \ {Poison} :
          Kept(QueuedRequest(t)) ~> (ts >= t /\ ~Kept(QueuedRequest(t)))
    /\ [](Kept(QueuedRequest(Poison)) => [] Kept(QueuedRequest(Poison)))

\* C35 witness: every other request has been delivered and removed while the
\* failing one, attempted at least three times, is back in the queue.
C35_Witness ==
    /\ ts = MaxItems
    /\ wpc = "backoff"
    /\ delay >= 8
    /\ retry_queue = << QueuedRequest(Poison) >>

-----------------------------------------------------------------------------
(* SpecRestart: either script over an end of its process.  mute.py is      *)
(* replaced by the watchdog (SpecWatchdog); main.py, reduced to its queue   *)
(* and retry worker (SpecWorker), exits and is started again.               *)

\* main.py lines 192-196 in a process that runs.
RestartEnqueues ==
    /\ wpc # "stopped"
    /\ LoopEnqueues

\* The process of main.py ends (shutdown, lines 208-213, the end of run, or
\* a signal that kills it): the worker, a daemon thread, ends with it
\* wherever it is, and nothing writes the queue or the item in hand anywhere.
MainProcessExit ==
    /\ program = "main" /\ pc = "idle"
    /\ wpc # "stopped"
    /\ wpc' = "stopped"
    /\ UNCHANGED << mainFrame, h_posts, now, backend_status, clientVars, witem,
                    delay, wake_at, loopVars, MQTT_CONNECTED, link, winHist >>

\* main.py is started again: BackendClient.__init__ builds a new RetryQueue
\* and a new RetryWorker (delay 2); start() runs the worker.
MainProcessStart ==
    /\ program = "main" /\ pc = "idle"
    /\ wpc = "stopped"
    /\ retry_queue' = << >>
    /\ witem' = << >>
    /\ delay' = BaseDelay
    /\ wake_at' = 0
    /\ wpc' = "pop"
    /\ UNCHANGED << mainFrame, h_posts, now, backend_status, clientConf,
                    loopVars, MQTT_CONNECTED, link, winHist >>

InitRestart == InitWatchdog \/ InitWorker

NextRestart ==
    \/ NextWatchdog
    \/ RestartEnqueues
    \/ \E b \in Backends, status \in WorkerStatuses : WorkerBackendChange(b, status)
    \/ WorkerPop
    \/ WorkerAttempt
    \/ WorkerPutBack
    \/ WorkerWake
    \/ WorkerSleeps
    \/ MainProcessExit
    \/ MainProcessStart

SpecRestart == InitRestart /\ [][NextRestart]_vars

\* The last step of the watchdog was os.execv: a new process image runs.
Restarted ==
    /\ h_restart # << >>
    /\ h_restart[Len(h_restart)].step = "exec"

\* C31: the end of a process keeps the durable queue and loses the one in
\* memory.  The step in which the watchdog replaces mute.py leaves every row
\* of the table as it was (id, topic, payload, type, created_at) and the next
\* id too, and a flush of the new process replays each row that has not
\* expired; the process of main.py that follows an exit starts with an empty
\* queue and a worker that holds no item, whatever the old one held.
C31_ExitKeepsRowsLosesQueue ==
    /\ [][ (program = "mute" /\ wd_pc = "exec" /\ wd_pc' # "exec") =>
              /\ unsent_messages' = unsent_messages
              /\ next_row_id' = next_row_id
              /\ \A i \in 1..Len(unsent_messages') :
                    ~Expired(unsent_messages'[i]) =>
                        \E j \in 1..Len(flush_queue(unsent_messages', now', 0).log) :
                            flush_queue(unsent_messages', now', 0).log[j].id
                                = unsent_messages'[i].id ]_vars
    /\ [][ (program = "main" /\ wpc = "stopped" /\ wpc' # "stopped") =>
              /\ retry_queue' = << >>
              /\ witem' = << >> ]_vars

\* C31 witness: after the restart the table holds a row that the old process
\* queued.
C31_Witness ==
    /\ program = "mute"
    /\ Restarted
    /\ unsent_messages # << >>
    /\ h_mqtt = NoMqttStep

\* The process of main.py has ended with a request in the queue and another
\* in the hand of the worker.
ExitedHoldingItems ==
    /\ program = "main"
    /\ wpc = "stopped"
    /\ retry_queue # << >>
    /\ witem # << >>

-----------------------------------------------------------------------------
(* Claims about the order and the replay of the durable queue.             *)

\* The row is in the table, within its ceiling, and flush_queue has not
\* handed it to client.publish.
WaitsUnpublished(row) ==
    /\ \E k \in 1..Len(unsent_messages) : unsent_messages[k] = row
    /\ ~Expired(row)
    /\ ~(tpc["net"] = "fl_publish" /\ fl_rows[fl_i].id = row.id)

\* C37 (as stated): a measurement of the acquisition thread is not published
\* ahead of an older, unexpired message of the durable queue: in the step in
\* which the broker acknowledges the publish of send_or_queue, no row within
\* its ceiling waits unpublished in the table.
C37_NoOvertaking ==
    [][ (program = "mute" /\ tpc["acq"] = "sq_publish" /\ tpc'["acq"] = "idle") =>
            \A i \in 1..Len(unsent_messages) :
                ~WaitsUnpublished(unsent_messages[i]) ]_vars

-----------------------------------------------------------------------------
(* SpecReplay: the threads of mute.py on an empty table over two prune      *)
(* intervals, the broker accepting or refusing connections and publishes.   *)

InitReplay ==
    /\ InitPrune
    /\ unsent_messages = << >>

SpecReplay == InitReplay /\ [][NextStore]_vars

\* The threads of the process are scheduled and the clock goes on; whether
\* the broker connects or disconnects is left to the broker.
ReplayFairness ==
    /\ WF_vars(MainInitLock) /\ WF_vars(MainInitDone)
    /\ WF_vars(\E ok \in BOOLEAN : AcqPublished(ok))
    /\ WF_vars(AcqQueueLock) /\ WF_vars(AcqQueueInsert)
    /\ WF_vars(NetFlushLock) /\ WF_vars(NetFlushRow)
    /\ WF_vars(\E ok \in BOOLEAN : NetFlushPublished(ok))
    /\ WF_vars(PruneWake) /\ WF_vars(PruneLock) /\ WF_vars(PruneDelete)
    /\ WF_vars(StoreTick)

SpecReplayLive == SpecReplay /\ ReplayFairness

\* Row id is in the table and within its ceiling.
RowWaits(id) ==
    \E k \in 1..Len(unsent_messages) :
        unsent_messages[k].id = id /\ ~Expired(unsent_messages[k])

\* flush_queue hands row id to client.publish.
RowReplayed(id) == tpc["net"] = "fl_publish" /\ fl_rows[fl_i].id = id

-----------------------------------------------------------------------------
(* SpecLoop: the threads of SpecStore with the acknowledgements of the      *)
(* broker handled where paho-mqtt handles them, in the network loop that    *)
(* loop_start runs (init_mqtt, line 547).  The callbacks run on that same   *)
(* thread; while one runs, the loop reads nothing.  The broker acknowledges *)
(* every publish and no publish call fails.                                 *)

\* The threads that wait in wait_for_publish.
Publishers == {"acq", "net"}

\* The network loop, between callbacks, reads the PUBACK of the publish that
\* thread t waits for, and wait_for_publish of t returns.
NetLoopPuback(t) ==
    /\ program = "mute" /\ tpc["net"] = "idle"
    /\ MQTT_CONNECTED
    /\ IF t = "acq" THEN AcqPublished(TRUE) ELSE NetFlushPublished(TRUE)

NextLoop ==
    \/ MainInitLock
    \/ MainInitDone
    \/ \E msg_type \in MsgTypes : AcqSend(msg_type)
    \/ \E t \in Publishers : NetLoopPuback(t)
    \/ AcqQueueLock
    \/ AcqQueueInsert
    \/ \E rc \in {0, 5} : NetConnect(rc)
    \/ NetDisconnect
    \/ NetFlushLock
    \/ NetFlushRow
    \/ PruneWake
    \/ PruneLock
    \/ PruneDelete
    \/ StoreTick

SpecLoop == InitStore /\ [][NextLoop]_vars

\* Every thread of the process is scheduled and the clock goes on.
LoopFairness ==
    /\ WF_vars(MainInitLock) /\ WF_vars(MainInitDone)
    /\ WF_vars(\E t \in Publishers : NetLoopPuback(t))
    /\ WF_vars(AcqQueueLock) /\ WF_vars(AcqQueueInsert)
    /\ WF_vars(NetFlushLock) /\ WF_vars(NetFlushRow)
    /\ WF_vars(PruneWake) /\ WF_vars(PruneLock) /\ WF_vars(PruneDelete)
    /\ WF_vars(StoreTick)

SpecLoopLive == SpecLoop /\ LoopFairness

\* C40 (as stated): a flush started by the connect callback terminates: once
\* the network thread holds the store lock in flush_queue, it comes to
\* release it, the broker acknowledging every publish (SpecLoopLive).
C40_FlushTerminates == (db_lock = "net") ~> (db_lock = NoOwner)

====
